---- MODULE Spec2Model ----
(***************************************************************************)
(* A model of the string trie of github.com/2speed/go-collection (package  *)
(* trie): nodes and leaf nodes live in a heap addressed by identifiers,    *)
(* the order list is the next/previous links of the leaves, and every      *)
(* public operation of the trie is one action.  Strings are sequences of   *)
(* byte codes ('a' = 97, 'A' = 65).  The array list of package list is a   *)
(* sequence, the elements slice of the list, with one action per method.   *)
(* The variable iterator is the pointer of an iterator in use, nil when    *)
(* there is none.                                                          *)
(***************************************************************************)
EXTENDS Integers, Sequences, FiniteSets, TLC

VARIABLES heap, root, size, digitizer, arrayList, iterator, last, fault, live, net

vars == <<heap, root, size, digitizer, arrayList, iterator, last, fault, live, net>>

(***************************************************************************)
(* Bounds of the model.                                                    *)
(***************************************************************************)
\* The capacity handed to NewTrie: the number of letters of the alphabet.
AlphabetSize == 2
\* The longest string handed to an operation.
MaxLen == 2
\* The most elements the trie holds at once.
MaxSize == 3

\* The most elements the array list holds at once.
MaxListLen == 3
\* The bytes the strings are made of: the letters of the alphabet, and 'A'.
Chars == {96 + i : i \in 1..AlphabetSize} \cup {65}

Elements == UNION {[1..n -> Chars] : n \in 0..MaxLen}

\* The collections handed to AddAll: nil, the empty one, and two of "b", "ab", "A".
Collections ==
    {<<-1>>, <<>>} \cup {<<x, y>> : x \in {<<98>>, <<97, 98>>, <<65>>},
                                   y \in {<<98>>, <<97, 98>>, <<65>>}}

\* Room for the sentinels, the root, and the nodes and leaves of the elements an Add or
\* an AddAll of two can reach from a full trie.
MaxNodes == 3 + (MaxSize + 2) * (MaxLen + 1)

Ids == 1..MaxNodes

(***************************************************************************)
(* Go's nil: the nil Node / LeafNode and the nil interface{} value.        *)
(***************************************************************************)
Nil == 0
NilValue == <<-1>>

(***************************************************************************)
(* digitizer.go: the Digitizer interface, the string digitizer, and a      *)
(* digitizer a caller may hand to NewTrieWithDigitizer that is not         *)
(* prefix-free: the letters of the string are its digits and nothing       *)
(* terminates them.  The variable digitizer is the trie's digitizer field. *)
(***************************************************************************)
stringDigitizer == "stringDigitizer"

plainDigitizer == "plainDigitizer"

\* The digitizer field of a search context that has never been prepared: nil.
noDigitizer == "nil"

\* strings.ToLower on one ASCII byte
ToLower(c) == IF c >= 65 /\ c <= 90 THEN c + 32 ELSE c

LowerString(s) == [i \in 1..Len(s) |-> ToLower(s[i])]

\* Base without the terminator digit
Base_WithoutTerminator == AlphabetSize

\* NewStringDigitizer(alphabetSize) sets base to alphabetSize + 1
Base == AlphabetSize + 1

\* IsPrefixFree of the digitizer d
IsPrefixFreeOf(d) == IF d = stringDigitizer THEN TRUE ELSE FALSE

IsPrefixFree == IsPrefixFreeOf(digitizer)

\* NumDigitsOf without the terminator digit: the digit sequences are not prefix-free
NumDigitsOf_NoTerminator(element) == Len(element)

NumDigitsOf(element) ==
    IF digitizer = stringDigitizer THEN Len(element) + 1 ELSE Len(element)

\* DigitOf without the lower-casing
DigitOf_CaseSensitive(element, place) ==
    IF place >= Len(element) THEN 0
    ELSE (element[place + 1] - 97 + 1) % 256

\* the subtraction is byte arithmetic: it wraps modulo 256
DigitOf(element, place) ==
    IF place >= Len(element) THEN 0
    ELSE (ToLower(element[place + 1]) - 97 + 1) % 256

\* The whole digit sequence of an element, terminator included.
Digits(element) == [i \in 1..NumDigitsOf(element) |-> DigitOf(element, i - 1)]

(***************************************************************************)
(* The search results and the childNotFound mark of the search context.    *)
(***************************************************************************)
Extension == 1
Greater == 2
Less == 3
Matched == 4
Prefix == 5
Unmatched == 6
childNotFound == -1

(***************************************************************************)
(* node.go: node and leafNode.  A heap cell is a record; a leafNode is a   *)
(* node made by newNode(0), which has no child slots, plus the list links. *)
(***************************************************************************)
Cell(kind, capacity, isRoot, isHead, isTail) ==
    [kind |-> kind, parent |-> Nil,
     children |-> [i \in 0..(capacity - 1) |-> Nil], numChildren |-> 0,
     element |-> NilValue, isRoot |-> isRoot,
     next |-> Nil, previous |-> Nil, isHead |-> isHead, isTail |-> isTail]

\* An identifier no object lives at.
FreeCell == Cell("free", 0, FALSE, FALSE, FALSE)

newNode(capacity) == Cell("node", IF capacity <= 0 THEN 0 ELSE capacity, FALSE, FALSE, FALSE)
newRootNode(capacity) == Cell("node", capacity, TRUE, FALSE, FALSE)
newLeafNode == Cell("leaf", 0, FALSE, FALSE, FALSE)
newHeadNode == Cell("leaf", 0, FALSE, TRUE, FALSE)
newTailNode == Cell("leaf", 0, FALSE, FALSE, TRUE)

\* The sentinels are the first two objects newTrieWithDigitizer allocates.
head == 1
tail == 2

NumSlots(n) == Cardinality(DOMAIN n.children)

\* node.checkBounds: note the comparison is index > len, not index >= len
checkBounds(n, index) == index < 0 \/ index > NumSlots(n)

IsDeleted(n) == n.previous = Nil

HasChildren(n) == n.numChildren > 0

(***************************************************************************)
(* The machine an operation runs on: the heap, the trie's root and size,   *)
(* the search context (pointer, digitizer, branchPosition, numMatches in   *)
(* ptr, dg, bp, nm: a fresh context as the pool makes it), the value the   *)
(* last call                                                               *)
(* returned, an iterator's cursor, and how the call ended: "none", "panic" *)
(* (a nil dereference, a failed type assertion, an index out of range) or  *)
(* "hang" (a loop that never exits).                                       *)
(***************************************************************************)
Machine(h, r, s) ==
    [heap |-> h, root |-> r, size |-> s, ptr |-> Nil, dg |-> noDigitizer, bp |-> 0,
     nm |-> 0, it |-> Nil, ret |-> Nil, fault |-> "none"]

Ret(M, v) == [M EXCEPT !.ret = v]

Panic(M) == [M EXCEPT !.fault = "panic"]

Hang(M) == [M EXCEPT !.fault = "hang"]

Faulted(M) == M.fault # "none"

\* The lowest identifier from i on that no object lives at; MaxNodes + 1 when there is none.
RECURSIVE FirstFree(_, _)
FirstFree(h, i) ==
    IF i > MaxNodes THEN i
    ELSE IF h[i].kind = "free" THEN i
    ELSE FirstFree(h, i + 1)


\* The one value of a set of one value.  An intermediate result is named by
\* The({ ... D ... : D \in {expr}}), which computes expr once.
The(S) == CHOOSE r \in S : TRUE

\* new(T): the object is stored at the lowest free identifier, which is returned in ret
Alloc(M, cell) ==
    The({IF id > MaxNodes THEN Hang(M) ELSE [M EXCEPT !.heap[id] = cell, !.ret = id] :
         id \in {FirstFree(M.heap, 1)}})

(***************************************************************************)
(* node.go: the methods of node.  Each takes the machine and the receiver  *)
(* and returns the machine with the method's result in ret.  A method      *)
(* called on nil panics.                                                   *)
(***************************************************************************)
\* ret: TRUE when an error is returned, FALSE when nil is returned
\* AddChildWithIndexOf without the test for an occupied slot: the child is replaced
AddChildWithIndexOf_Replaces(M, n, index, child) ==
    IF n = Nil THEN Panic(M)
    ELSE IF index < 0 \/ index >= NumSlots(M.heap[n]) THEN Ret(M, TRUE)
    ELSE IF child = Nil THEN Panic(M)
    ELSE [M EXCEPT !.heap[n].numChildren = IF M.heap[n].children[index] = Nil
                                           THEN @ + 1 ELSE @,
                   !.heap[n].children[index] = child,
                   !.heap[child].parent = n,
                   !.ret = FALSE]

\* ret: TRUE when an error is returned
AddChildWithIndexOf(M, n, index, child) ==
    IF n = Nil THEN Panic(M)
    ELSE IF index < 0 \/ index >= NumSlots(M.heap[n]) THEN Ret(M, TRUE)
    ELSE IF M.heap[n].children[index] # Nil THEN Ret(M, TRUE)
    ELSE IF child = Nil  \* child.SetParent(n) panics, after the count and the slot are set
         THEN Panic([M EXCEPT !.heap[n].numChildren = @ + 1])
    ELSE [M EXCEPT !.heap[n].numChildren = @ + 1,
                   !.heap[n].children[index] = child,
                   !.heap[child].parent = n,
                   !.ret = FALSE]

\* ret: the child (Nil for an empty slot), or childNotFound when an error is returned
ChildWithIndexOf(M, n, index) ==
    IF n = Nil THEN Panic(M)
    ELSE IF checkBounds(M.heap[n], index) THEN Ret(M, childNotFound)
    ELSE IF index >= NumSlots(M.heap[n]) THEN Panic(M)
    ELSE Ret(M, M.heap[n].children[index])

\* RemoveChildWithIndexOf that leaves numChildren as it is
RemoveChildWithIndexOf_KeepsCount(M, n, index) ==
    IF n = Nil THEN Panic(M)
    ELSE IF checkBounds(M.heap[n], index) THEN Ret(M, FALSE)
    ELSE IF index >= NumSlots(M.heap[n]) THEN Panic(M)
    ELSE IF M.heap[n].children[index] # Nil
         THEN [M EXCEPT !.heap[n].children[index] = Nil, !.ret = TRUE]
         ELSE Ret(M, FALSE)

\* ret: whether a child was removed
RemoveChildWithIndexOf(M, n, index) ==
    IF n = Nil THEN Panic(M)
    ELSE IF checkBounds(M.heap[n], index) THEN Ret(M, FALSE)
    ELSE IF index >= NumSlots(M.heap[n]) THEN Panic(M)
    ELSE IF M.heap[n].children[index] # Nil
         THEN [M EXCEPT !.heap[n].children[index] = Nil,
                        !.heap[n].numChildren = @ - 1,
                        !.ret = TRUE]
         ELSE Ret(M, FALSE)

(***************************************************************************)
(* node.go: the methods of leafNode.                                       *)
(***************************************************************************)
\* l.AddAfter(leafNode)
AddAfter(M, l, leafNode) ==
    IF l = Nil \/ leafNode = Nil THEN Panic(M)
    ELSE The({IF M1.heap[l].next = Nil THEN Panic(M1)
              ELSE [M1 EXCEPT !.heap[M1.heap[l].next].previous = l] :
              M1 \in {[M EXCEPT !.heap[l].next = M.heap[leafNode].next,
                                !.heap[leafNode].next = l,
                                !.heap[l].previous = leafNode]}})

\* l.Remove(): unlink, then markDeleted
\* leafNode.Remove without markDeleted: the previous link stays
LeafRemove_NoMark(M, l) ==
    IF l = Nil THEN Panic(M)
    ELSE IF M.heap[l].previous = Nil THEN Panic(M)
    ELSE IF M.heap[l].next = Nil
         THEN Panic([M EXCEPT !.heap[M.heap[l].previous].next = Nil])
    ELSE The({[M1 EXCEPT !.heap[M1.heap[l].next].previous = M1.heap[l].previous] :
              M1 \in {[M EXCEPT !.heap[M.heap[l].previous].next = M.heap[l].next]}})

LeafRemove(M, l) ==
    IF l = Nil THEN Panic(M)
    ELSE IF M.heap[l].previous = Nil THEN Panic(M)
    ELSE IF M.heap[l].next = Nil
         THEN Panic([M EXCEPT !.heap[M.heap[l].previous].next = Nil])
    ELSE The({[M1 EXCEPT !.heap[M1.heap[l].next].previous = M1.heap[l].previous,
                         !.heap[l].previous = Nil] :
              M1 \in {[M EXCEPT !.heap[M.heap[l].previous].next = M.heap[l].next]}})

(***************************************************************************)
(* search_context.go: the search context.                                  *)
(***************************************************************************)
\* the type assertion s.pointer.(LeafNode) fails on nil without a panic
atLeaf(M) == M.ptr # Nil /\ M.heap[M.ptr].kind = "leaf"

\* s.pointer.Parent() == nil; the caller has checked that the pointer is not nil
atRoot(M) == M.heap[M.ptr].parent = Nil

childBranchPosition(M, index) == M.bp + 1

parentBranchPosition(M) == M.bp - 1

\* ret: index, or childNotFound
descendToIndex(M, index) ==
    The({IF Faulted(C) THEN C
         ELSE IF C.ret = childNotFound \/ C.ret = Nil THEN Ret(M, childNotFound)
         ELSE [M EXCEPT !.bp = childBranchPosition(M, index), !.ptr = C.ret, !.ret = index] :
         C \in {ChildWithIndexOf(M, M.ptr, index)}})

\* s.digitizer.DigitOf is a call on a nil interface when the context was not prepared
descendTo(M, element) ==
    IF M.dg = noDigitizer THEN Panic(M)
    ELSE descendToIndex(M, DigitOf(element, M.bp))

ascend(M) ==
    IF M.ptr = Nil THEN Panic(M)
    ELSE [M EXCEPT !.bp = parentBranchPosition(M), !.ptr = M.heap[M.ptr].parent,
                   !.ret = parentBranchPosition(M)]

\* the inner loop of moveToMaxDescendant: index-- until a child is found; no index
\* below 0 names a child, so the loop never ends once it gets there
RECURSIVE descendToLargest(_, _)
descendToLargest(M, index) ==
    IF index < 0 THEN Hang(M)
    ELSE The({IF Faulted(D) THEN D
              ELSE IF D.ret = childNotFound THEN descendToLargest(M, index - 1)
              ELSE D :
              D \in {descendToIndex(M, index)}})

RECURSIVE moveToMaxDescendant(_)
moveToMaxDescendant(M) ==
    IF Faulted(M) \/ atLeaf(M) THEN M
    ELSE IF M.dg = noDigitizer THEN Panic(M)
    ELSE The({moveToMaxDescendant(D) : D \in {descendToLargest(M, Base - 1)}})

\* the inner loop of retraceToLastLeftFork: ret is the slot descended to, or childNotFound
\* lowerSibling that looks at the nearest lower slot only
lowerSibling_NearestOnly(M, i) ==
    IF i < 0 THEN Ret(M, childNotFound) ELSE descendToIndex(M, i)

RECURSIVE lowerSibling(_, _)
lowerSibling(M, i) ==
    IF i < 0 THEN Ret(M, childNotFound)
    ELSE The({IF Faulted(D) THEN D
              ELSE IF D.ret # childNotFound THEN D
              ELSE lowerSibling(M, i - 1) :
              D \in {descendToIndex(M, i)}})

RECURSIVE retraceToLastLeftFork(_, _)
retraceToLastLeftFork(M, element) ==
    IF ~atLeaf(M) /\ M.dg = noDigitizer THEN Panic(M)
    ELSE The({IF Faulted(S) THEN S
              ELSE IF S.ret # childNotFound THEN S
              ELSE IF S.ptr = Nil THEN Panic(S)
              ELSE IF atRoot(S) THEN S
              ELSE The({retraceToLastLeftFork(A, element) : A \in {ascend(S)}}) :
              S \in {IF ~atLeaf(M) THEN lowerSibling(M, DigitOf(element, M.bp) - 1)
                     ELSE Ret(M, childNotFound)}})

(***************************************************************************)
(* trie.go: the unexported methods of trie.                                *)
(***************************************************************************)
Size(M) == M.size

IsEmpty(M) == Size(M) = 0

\* prepareSearch that leaves the branch position as it finds it
prepareSearch_KeepsPosition(M) == [M EXCEPT !.ptr = M.root, !.dg = digitizer]

\* numMatches is not assigned
prepareSearch(M) == [M EXCEPT !.ptr = M.root, !.dg = digitizer, !.bp = 0]

\* findLoop that takes a missing child for a match
RECURSIVE findLoop_MissingChildMatches(_, _)
findLoop_MissingChildMatches(M, element) ==
    IF M.ptr # Nil /\ ~atLeaf(M)
    THEN IF M.bp = NumDigitsOf(element) THEN Ret(M, Prefix)
         ELSE The({IF Faulted(D) THEN D
                   ELSE IF D.ret = childNotFound THEN Ret(D, Matched)
                   ELSE findLoop_MissingChildMatches(D, element) :
                   D \in {descendTo(M, element)}})
    ELSE IF M.ptr # Nil /\ M.bp # NumDigitsOf(element) THEN Ret(M, Extension)
    ELSE Ret(M, Matched)

\* findLoop that takes every leaf it reaches for a match
RECURSIVE findLoop_LeafMatches(_, _)
findLoop_LeafMatches(M, element) ==
    IF M.ptr # Nil /\ ~atLeaf(M)
    THEN IF M.bp = NumDigitsOf(element) THEN Ret(M, Prefix)
         ELSE The({IF Faulted(D) THEN D
                   ELSE IF D.ret = childNotFound THEN Ret(D, Unmatched)
                   ELSE findLoop_LeafMatches(D, element) :
                   D \in {descendTo(M, element)}})
    ELSE Ret(M, Matched)

\* the for loop of find and the classification after it; ret is the search result
RECURSIVE findLoop(_, _)
findLoop(M, element) ==
    IF M.ptr # Nil /\ ~atLeaf(M)
    THEN IF M.bp = NumDigitsOf(element) THEN Ret(M, Prefix)
         ELSE The({IF Faulted(D) THEN D
                   ELSE IF D.ret = childNotFound THEN Ret(D, Unmatched)
                   ELSE findLoop(D, element) :
                   D \in {descendTo(M, element)}})
    ELSE IF M.ptr # Nil /\ M.bp # NumDigitsOf(element) THEN Ret(M, Extension)
    ELSE Ret(M, Matched)

find(M, element) ==
    The({IF IsEmpty(P) THEN Ret(P, Unmatched) ELSE findLoop(P, element) :
         P \in {prepareSearch(M)}})

\* the for loop of addNode: one fresh internal node per digit before the last
RECURSIVE addNodeLoop(_, _)
addNodeLoop(M, element) ==
    IF Faulted(M) \/ ~(M.bp < NumDigitsOf(element) - 1) THEN M
    ELSE The({IF Faulted(A) THEN A
              ELSE The({IF Faulted(C) THEN C
                        ELSE The({addNodeLoop(N, element) :
                                  N \in {[C EXCEPT !.ptr = A.ret, !.bp = @ + 1]}}) :
                        C \in {AddChildWithIndexOf(A, A.ptr, DigitOf(element, A.bp), A.ret)}}) :
              A \in {Alloc(M, newNode(Base))}})

\* the root, made when the trie has none yet
addRoot(M) ==
    IF M.ptr = Nil
    THEN The({IF Faulted(A) THEN A ELSE [A EXCEPT !.root = A.ret, !.ptr = A.ret] :
              A \in {Alloc(M, newRootNode(Base))}})
    ELSE M

addNode(M, node) ==
    The({IF Faulted(L) THEN L
         ELSE The({IF Faulted(C) THEN C ELSE [C EXCEPT !.ptr = node, !.bp = @ + 1] :
                   C \in {AddChildWithIndexOf(L, L.ptr,
                                              DigitOf(M.heap[node].element, L.bp), node)}}) :
         L \in {The({addNodeLoop(R, M.heap[node].element) : R \in {addRoot(M)}})}})

\* ret: whether the pointer was moved to the predecessor
moveToPredecessor(M, element, searchResult) ==
    IF atLeaf(M) /\ (searchResult = Greater \/ searchResult = Extension) THEN Ret(M, TRUE)
    ELSE The({IF Faulted(R) THEN R
              ELSE IF R.ptr = Nil THEN Panic(R)
              ELSE IF atRoot(R) THEN Ret(R, FALSE)
              ELSE IF ~atLeaf(R)
                   THEN The({IF Faulted(D) THEN D ELSE Ret(D, TRUE) :
                             D \in {moveToMaxDescendant(R)}})
                   ELSE Ret(R, TRUE) :
              R \in {IF searchResult # Greater THEN retraceToLastLeftFork(M, element)
                     ELSE M}})

\* addToList that puts every leaf after head
addToList_AfterHead(P, leafNode) ==
    IF Faulted(P) THEN P ELSE AddAfter(P, leafNode, head)

\* the list insertion of insert: after the predecessor, or after head when there is none;
\* the type assertion sctx.pointer.(LeafNode) panics off a leaf
addToList(P, leafNode) ==
    IF Faulted(P) THEN P
    ELSE IF P.ret
         THEN IF atLeaf(P) THEN AddAfter(P, leafNode, P.ptr) ELSE Panic(P)
         ELSE AddAfter(P, leafNode, head)

\* insert, once the search has not ruled the element out; N is the machine after
\* newLeafNode, the new leaf in ret
insertLeaf(N, element, leafNode) ==
    The({IF Faulted(A) THEN A
         ELSE The({The({IF Faulted(L) THEN L ELSE [L EXCEPT !.size = @ + 1, !.ret = FALSE] :
                        L \in {addToList(P, leafNode)}}) :
                   P \in {moveToPredecessor(A, element, Matched)}}) :
         A \in {addNode(N, leafNode)}})

\* insert without the test for an element that is already stored
insert_AcceptsMatched(M, element) ==
    The({IF Faulted(F) THEN F
         ELSE The({IF Faulted(N) THEN N ELSE insertLeaf(N, element, N.ret) :
                   N \in {Alloc(F, [newLeafNode EXCEPT !.element = element])}}) :
         F \in {find(M, element)}})

\* ret: TRUE when an error is returned ("element violates prefix-free requirement")
insert(M, element) ==
    The({IF Faulted(F) THEN F
         ELSE IF F.ret = Matched
                 \/ (~IsPrefixFree /\ (F.ret = Prefix \/ F.ret = Extension))
              THEN Ret(F, TRUE)
         ELSE The({IF Faulted(N) THEN N ELSE insertLeaf(N, element, N.ret) :
                   N \in {Alloc(F, [newLeafNode EXCEPT !.element = element])}}) :
         F \in {find(M, element)}})

\* removeLoop that detaches nothing
removeLoop_NoPruning(M, node, element, level) == M

\* removeLoop that detaches the leaf and leaves its ancestors as they are
removeLoop_LeafOnly(M, node, element, level) ==
    IF Faulted(M) THEN M
    ELSE IF node = Nil THEN Panic(M)
    ELSE IF ~M.heap[node].isRoot /\ ~HasChildren(M.heap[node])
    THEN RemoveChildWithIndexOf(M, M.heap[node].parent, DigitOf(element, level - 1))
    ELSE M

\* the pruning loop of remove
RECURSIVE removeLoop(_, _, _, _)
removeLoop(M, node, element, level) ==
    IF Faulted(M) THEN M
    ELSE IF node = Nil THEN Panic(M)
    ELSE IF ~M.heap[node].isRoot /\ ~HasChildren(M.heap[node])
    THEN IF level - 1 < 0 THEN Panic(M)  \* DigitOf indexes the string at a negative place
         ELSE
         The({removeLoop(R, M.heap[node].parent, element, level - 1) :
              R \in {RemoveChildWithIndexOf(M, M.heap[node].parent,
                                            DigitOf(element, level - 1))}})
    ELSE M

\* remove that leaves the size as it is
remove_KeepsSize(M, node) ==
    IF node = Nil THEN Panic(M)
    ELSE The({IF Faulted(U) THEN U
              ELSE IF U.heap[node].element = NilValue THEN Panic(U)
              ELSE removeLoop(U, node, U.heap[node].element,
                              NumDigitsOf(U.heap[node].element)) :
              U \in {IF M.heap[node].kind = "leaf" THEN LeafRemove(M, node) ELSE M}})

\* t.remove(node)
remove(M, node) ==
    IF node = Nil THEN Panic(M)
    ELSE The({IF Faulted(U) THEN U
              ELSE IF U.heap[node].element = NilValue THEN Panic(U)
              ELSE The({IF Faulted(L) THEN L ELSE [L EXCEPT !.size = @ - 1] :
                        L \in {removeLoop(U, node, U.heap[node].element,
                                          NumDigitsOf(U.heap[node].element))}}) :
              U \in {IF M.heap[node].kind = "leaf" THEN LeafRemove(M, node) ELSE M}})

(***************************************************************************)
(* radix_tree.go: radixTree embeds *trie and has a find, an addNode and a   *)
(* remove of its own.                                                      *)
(***************************************************************************)
\* the loop of checkMatchFromLeaf and the classification after it
RECURSIVE checkMatchLoop(_, _, _, _)
checkMatchLoop(M, element, leafData, stop) ==
    IF M.nm < stop
    THEN IF DigitOf(element, M.nm) < DigitOf(leafData, M.nm)
         THEN IF IsPrefixFree /\ DigitOf(element, M.nm) = 0
              THEN Ret(M, Prefix) ELSE Ret(M, Less)
         ELSE IF DigitOf(element, M.nm) > DigitOf(leafData, M.nm) THEN Ret(M, Greater)
         ELSE checkMatchLoop([M EXCEPT !.nm = @ + 1], element, leafData, stop)
    ELSE IF M.nm = NumDigitsOf(element)
         THEN IF M.nm = NumDigitsOf(leafData) THEN Ret(M, Matched) ELSE Ret(M, Prefix)
    ELSE Ret(M, Extension)

\* leafData.(string) panics when the node holds no element
checkMatchFromLeaf(M, element) ==
    IF M.ptr = Nil THEN Panic(M)
    ELSE IF M.heap[M.ptr].element = NilValue THEN Panic(M)
    ELSE checkMatchLoop(M, element, M.heap[M.ptr].element,
                        IF NumDigitsOf(element) < NumDigitsOf(M.heap[M.ptr].element)
                        THEN NumDigitsOf(element)
                        ELSE NumDigitsOf(M.heap[M.ptr].element))

\* the for loop of radixTree.find and what follows it
RECURSIVE radixTree_findLoop(_, _)
radixTree_findLoop(M, element) ==
    IF M.bp < NumDigitsOf(element) /\ ~atLeaf(M)
    THEN The({IF Faulted(D) THEN D
              ELSE IF D.ret = childNotFound THEN Ret(D, Unmatched)
              ELSE radixTree_findLoop(D, element) :
              D \in {descendTo(M, element)}})
    ELSE IF M.bp = NumDigitsOf(element)
         THEN IF atLeaf(M) THEN Ret(M, Matched) ELSE Ret(M, Prefix)
    ELSE checkMatchFromLeaf([M EXCEPT !.nm = M.bp], element)

radixTree_find(M, element) ==
    The({IF IsEmpty(P) THEN Ret(P, Unmatched) ELSE radixTree_findLoop(P, element) :
         P \in {prepareSearch(M)}})

\* s.extendPath(element, node): the node is added as a child of itself
\* (node.AddChildWithIndexOf(index, node)), the error is dropped
extendPath(M, element, node) ==
    IF M.dg = noDigitizer THEN Panic(M)
    ELSE The({IF Faulted(C) THEN C ELSE descendToIndex(C, DigitOf(element, M.bp)) :
              C \in {AddChildWithIndexOf(M, node, DigitOf(element, M.bp), node)}})

\* the for loop of radixTree.addNode: a fresh node for each digit the element and the
\* leaf share; the fuel bounds a loop that does not move the context
RECURSIVE splitLoop(_, _, _, _)
splitLoop(M, element, leafData, fuel) ==
    IF Faulted(M) THEN M
    ELSE IF M.dg = noDigitizer THEN Panic(M)
    ELSE IF leafData = NilValue THEN Panic(M)
    ELSE IF DigitOf(element, M.bp) # DigitOf(leafData, M.bp) THEN M
    ELSE IF fuel = 0 THEN Hang(M)
    ELSE The({IF Faulted(A) THEN A
              ELSE The({splitLoop(E, element, leafData, fuel - 1) :
                        E \in {extendPath(A, element, A.ret)}}) :
              A \in {Alloc(M, newNode(Base))}})

\* radixTree.addNode when the context is at a leaf: the split
splitAtLeaf(M, element, leafNode) ==
    The({IF Faulted(S) THEN S
         ELSE The({IF Faulted(E) THEN E ELSE ascend(E) :
                   E \in {extendPath(S, M.heap[leafNode].element, leafNode)}}) :
         S \in {The({splitLoop(A, element, M.heap[leafNode].element, MaxNodes) :
                     A \in {ascend(M)}})}})

\* rt.addNode(node, searchContext)
radixTree_addNode(M, node) ==
    IF node = Nil THEN Panic(M)
    ELSE The({IF Faulted(S) THEN S ELSE extendPath(S, M.heap[node].element, node) :
              S \in {The({IF Faulted(R) THEN R
                          ELSE IF atLeaf(R) THEN splitAtLeaf(R, M.heap[node].element, R.ptr)
                          ELSE R :
                          R \in {addRoot(M)}})}})

\* rt.remove(node): the body is empty
radixTree_remove(M, node) == M

(***************************************************************************)
(* trie.go: the iterator.  The cursor is the machine's "it".               *)
(***************************************************************************)
newIterator(M, pointer) == [M EXCEPT !.it = pointer]

inCollection(M) ==
    IF M.heap[M.it].isHead \/ M.heap[M.it].isTail THEN FALSE
    ELSE ~IsDeleted(M.heap[M.it])

get(M) == IF inCollection(M) THEN M.heap[M.it].element ELSE NilValue

\* skipRemovedElements that steps over one removed leaf only
skipRemovedElements_OneStep(M, leafNode, fuel) ==
    IF leafNode = Nil THEN Panic(M)
    ELSE IF M.heap[leafNode].isHead \/ M.heap[leafNode].isTail \/ ~IsDeleted(M.heap[leafNode])
    THEN Ret(M, leafNode)
    ELSE Ret(M, M.heap[leafNode].next)

\* ret: the first leaf at or after leafNode that is not removed; the fuel bounds the
\* recursion, which a cycle of removed leaves would never leave
RECURSIVE skipRemovedElements(_, _, _)
skipRemovedElements(M, leafNode, fuel) ==
    IF leafNode = Nil THEN Panic(M)
    ELSE IF fuel = 0 THEN Hang(M)
    ELSE IF M.heap[leafNode].isHead \/ M.heap[leafNode].isTail \/ ~IsDeleted(M.heap[leafNode])
    THEN Ret(M, leafNode)
    ELSE The({IF Faulted(S) THEN S
              ELSE [S EXCEPT !.heap[leafNode].next = S.ret, !.ret = S.ret] :
              S \in {skipRemovedElements(M, M.heap[leafNode].next, fuel - 1)}})

\* ret: whether the cursor is on an element
advance(M) ==
    IF M.it = Nil THEN Panic(M)
    ELSE IF M.heap[M.it].isTail THEN Ret(M, FALSE)
    ELSE The({IF Faulted(A) THEN A
              ELSE IF A.it = Nil THEN Panic(A)
              ELSE Ret(A, ~A.heap[A.it].isTail) :
              A \in {IF ~M.heap[M.it].isHead /\ IsDeleted(M.heap[M.it])
                     THEN The({IF Faulted(S) THEN S ELSE [S EXCEPT !.it = S.ret] :
                               S \in {skipRemovedElements(M, M.it, MaxNodes + 1)}})
                     ELSE [M EXCEPT !.it = M.heap[M.it].next]}})

iteratorRemove(M) == IF inCollection(M) THEN remove(M, M.it) ELSE M

(***************************************************************************)
(* trie.go: the exported methods of trie.                                  *)
(***************************************************************************)
\* ret: TRUE when an error is returned
Add(M, element) == insert(M, element)

\* addAllLoop that goes on after an Add has failed
RECURSIVE addAllLoop_GoesOn(_, _, _)
addAllLoop_GoesOn(M, values, i) ==
    IF i > Len(values) THEN Ret(M, 0)
    ELSE The({IF Faulted(A) THEN A ELSE addAllLoop_GoesOn(A, values, i + 1) :
              A \in {Add(M, values[i])}})

\* ret: 0 when nil is returned, else the position in the collection of the element
\* whose Add failed
RECURSIVE addAllLoop(_, _, _)
addAllLoop(M, values, i) ==
    IF i > Len(values) THEN Ret(M, 0)
    ELSE The({IF Faulted(A) THEN A
              ELSE IF A.ret THEN Ret(A, i)
              ELSE addAllLoop(A, values, i + 1) :
              A \in {Add(M, values[i])}})

\* a nil collection is the value NilValue; a collection is the sequence its Values() returns
AddAll(M, collection) ==
    IF collection # NilValue THEN addAllLoop(M, collection, 1) ELSE Ret(M, 0)

\* ret: whether an element was removed
Remove(M, element) ==
    IF IsEmpty(M) THEN Ret(M, FALSE)
    ELSE The({IF Faulted(F) THEN F
              ELSE IF F.ret # Matched THEN Ret(F, FALSE)
              ELSE The({IF Faulted(R) THEN R ELSE Ret(R, TRUE) : R \in {remove(F, F.ptr)}}) :
              F \in {find(M, element)}})

Min(M) ==
    IF ~IsEmpty(M)
    THEN IF M.heap[head].next = Nil THEN Panic(M)
         ELSE Ret(M, M.heap[M.heap[head].next].element)
    ELSE Ret(M, NilValue)

\* Max that follows tail's next link instead of its previous link
Max_NextOfTail(M) ==
    IF ~IsEmpty(M)
    THEN IF M.heap[tail].next = Nil THEN Panic(M)
         ELSE Ret(M, M.heap[M.heap[tail].next].element)
    ELSE Ret(M, NilValue)

Max(M) ==
    IF ~IsEmpty(M)
    THEN IF M.heap[tail].previous = Nil THEN Panic(M)
         ELSE Ret(M, M.heap[M.heap[tail].previous].element)
    ELSE Ret(M, NilValue)

\* Predecessor that takes every search result for Greater
Predecessor_SearchResultGreater(M, element) ==
    IF ~IsEmpty(M)
    THEN The({IF Faulted(F) THEN F
              ELSE The({IF Faulted(P) THEN P
                        ELSE IF P.ret THEN Ret(P, P.heap[P.ptr].element)
                        ELSE Ret(P, NilValue) :
                        P \in {moveToPredecessor(F, element, Greater)}}) :
              F \in {find(M, element)}})
    ELSE Ret(M, NilValue)

Predecessor(M, element) ==
    IF ~IsEmpty(M)
    THEN The({IF Faulted(F) THEN F
              ELSE The({IF Faulted(P) THEN P
                        ELSE IF P.ret THEN Ret(P, P.heap[P.ptr].element)
                        ELSE Ret(P, NilValue) :
                        P \in {moveToPredecessor(F, element, F.ret)}}) :
              F \in {find(M, element)}})
    ELSE Ret(M, NilValue)

\* sctx.pointer.(LeafNode).Next(): ret is the next leaf; the assertion panics off a leaf
nextOfPointer(M) == IF atLeaf(M) THEN Ret(M, M.heap[M.ptr].next) ELSE Panic(M)

\* the successor Successor settles on, in ret: a leaf, or tail
successorLeaf(M, element) ==
    The({IF Faulted(F) THEN F
         ELSE IF F.ret = Matched THEN nextOfPointer(F)
         ELSE The({IF Faulted(G) THEN G
                   ELSE The({IF Faulted(P) THEN P
                             ELSE IF P.ret THEN nextOfPointer(P)
                             ELSE Ret(P, tail) :
                             P \in {moveToPredecessor(G, element, G.ret)}}) :
                   G \in {find(F, element)}}) :
         F \in {find(M, element)}})

Successor(M, element) ==
    IF ~IsEmpty(M)
    THEN The({IF Faulted(S) THEN S
              ELSE IF S.ret = Nil THEN Panic(S)
              ELSE IF ~S.heap[S.ret].isTail THEN Ret(S, S.heap[S.ret].element)
              ELSE Ret(S, NilValue) :
              S \in {successorLeaf(M, element)}})
    ELSE Ret(M, NilValue)

\* clearLoop that removes the first element only: an if where the for is
clearLoop_Once(M, fuel) ==
    The({IF Faulted(A) THEN A ELSE IF A.ret THEN iteratorRemove(A) ELSE A :
         A \in {advance(M)}})

\* the loop of Clear; the fuel bounds it, as a list that never reaches tail would not end it
RECURSIVE clearLoop(_, _)
clearLoop(M, fuel) ==
    IF fuel = 0 THEN Hang(M)
    ELSE The({IF Faulted(A) THEN A
              ELSE IF A.ret
                   THEN The({IF Faulted(R) THEN R ELSE clearLoop(R, fuel - 1) :
                             R \in {iteratorRemove(A)}})
              ELSE A :
              A \in {advance(M)}})

Clear(M) == clearLoop(newIterator(M, head), MaxNodes + 1)

Contains(M, element) ==
    IF IsEmpty(M) THEN Ret(M, FALSE)
    ELSE The({IF Faulted(F) THEN F ELSE Ret(F, F.ret = Matched) : F \in {find(M, element)}})

\* the loop of Values
RECURSIVE valuesLoop(_, _, _)
valuesLoop(M, elements, fuel) ==
    IF fuel = 0 THEN Hang(M)
    ELSE The({IF Faulted(A) THEN A
              ELSE IF A.ret THEN valuesLoop(A, Append(elements, get(A)), fuel - 1)
              ELSE Ret(A, elements) :
              A \in {advance(M)}})

Values(M) == valuesLoop(newIterator(M, head), <<>>, MaxNodes + 1)

(***************************************************************************)
(* The prefix queries.  The sink is a list (list.arrayList); it travels in *)
(* ret, so a query returns the sink as it left it.                         *)
(***************************************************************************)
\* arrayList.Add that puts the element at the front, as AddFirst does
arrayListAdd_AddFirst(collection, element) == <<element>> \o collection

\* arrayList.Add: the element is appended
arrayListAdd(collection, element) == Append(collection, element)

(***************************************************************************)
(* array_list.go: the methods of arrayList.  A list is the sequence of its *)
(* elements slice; a call ends in a record of the slice it leaves, the     *)
(* value and the error it returns (err is TRUE for a non-nil error), and   *)
(* whether it panicked.  Positions are counted from 0 as in the source.    *)
(***************************************************************************)
ListRet(l, ret, err) == [elements |-> l, ret |-> ret, err |-> err, fault |-> "none"]

\* runtime panic: index out of range
ListPanic(l) == [elements |-> l, ret |-> NilValue, err |-> FALSE, fault |-> "panic"]

\* collection.ElementNotFound
ElementNotFound == -1

\* copy(a[dLo:dHi], a[sLo:sHi]) within one slice: min(len(dst), len(src)) elements
\* are moved, as if through a buffer
copySlice(a, dLo, dHi, sLo, sHi) ==
    [k \in 1..Len(a) |->
        IF k - 1 >= dLo /\ k - 1 < dLo + (IF dHi - dLo < sHi - sLo THEN dHi - dLo ELSE sHi - sLo)
        THEN a[(k - 1 - dLo) + sLo + 1]
        ELSE a[k]]

arrayListSize(l) == Len(l)

\* TRUE when an error is returned
arrayListCheckBounds(l, index) == index < 0 \/ index > arrayListSize(l)

arrayListAddFirst(l, element) == ListRet(<<element>> \o l, NilValue, FALSE)

arrayListAddLast(l, element) == ListRet(arrayListAdd(l, element), NilValue, FALSE)

\* AddWithIndex that overwrites the element at index instead of moving it up
arrayListAddWithIndex_Overwrites(l, index, element) ==
    IF arrayListCheckBounds(l, index) THEN ListRet(l, NilValue, TRUE)
    ELSE ListRet([Append(l, NilValue) EXCEPT ![index + 1] = element], NilValue, FALSE)

arrayListAddWithIndex(l, index, element) ==
    IF arrayListCheckBounds(l, index) THEN ListRet(l, NilValue, TRUE)
    ELSE ListRet([copySlice(Append(l, NilValue), index + 1, Len(l) + 1, index, Len(l) + 1)
                     EXCEPT ![index + 1] = element],
                 NilValue, FALSE)

arrayListValueWithIndex(l, index) ==
    IF arrayListCheckBounds(l, index) THEN ListRet(l, NilValue, TRUE)
    ELSE IF index >= Len(l) THEN ListPanic(l)
    ELSE ListRet(l, l[index + 1], FALSE)

\* findFirst that returns the last occurrence
findFirst_Last(l, element) ==
    IF \E i \in 1..Len(l) : l[i] = element
    THEN ListRet(l, (CHOOSE i \in 1..Len(l) :
                        l[i] = element /\ \A j \in (i + 1)..Len(l) : l[j] # element) - 1,
                 FALSE)
    ELSE ListRet(l, -1, TRUE)

\* the loop of findFirst from position i on
RECURSIVE findFirstFrom(_, _, _)
findFirstFrom(l, element, i) ==
    IF i >= Len(l) THEN ListRet(l, -1, TRUE)
    ELSE IF l[i + 1] = element THEN ListRet(l, i, FALSE)
    ELSE findFirstFrom(l, element, i + 1)

findFirst(l, element) == findFirstFrom(l, element, 0)

arrayListIndexOf(l, element) == findFirst(l, element)

arrayListContains(l, element) ==
    The({ListRet(l, ~I.err /\ I.ret # ElementNotFound, FALSE) :
         I \in {arrayListIndexOf(l, element)}})

arrayListRemoveWithIndex(l, index) ==
    The({IF V.fault # "none" \/ V.err THEN V
         ELSE ListRet(SubSeq(copySlice(l, index, arrayListSize(l) - 1,
                                       index + 1, arrayListSize(l)),
                             1, arrayListSize(l) - 1),
                      V.ret, FALSE) :
         V \in {arrayListValueWithIndex(l, index)}})

arrayListRemove(l, element) ==
    IF arrayListContains(l, element).ret
    THEN The({IF R.fault # "none" THEN R
              ELSE IF R.err THEN ListRet(R.elements, FALSE, FALSE)
              ELSE ListRet(R.elements, TRUE, FALSE) :
              R \in {arrayListRemoveWithIndex(l, arrayListIndexOf(l, element).ret)}})
    ELSE ListRet(l, FALSE, FALSE)

arrayListRemoveFirst(l) ==
    IF arrayListSize(l) > 0
    THEN The({IF R.fault # "none" THEN R ELSE ListRet(R.elements, R.ret, FALSE) :
              R \in {arrayListRemoveWithIndex(l, 0)}})
    ELSE ListRet(l, NilValue, FALSE)

arrayListRemoveLast(l) ==
    IF arrayListSize(l) > 0
    THEN The({IF R.fault # "none" THEN R ELSE ListRet(R.elements, R.ret, FALSE) :
              R \in {arrayListRemoveWithIndex(l, arrayListSize(l) - 1)}})
    ELSE ListRet(l, NilValue, FALSE)

\* l.elements[:0]
arrayListClear(l) == ListRet(<< >>, NilValue, FALSE)

\* reflect.DeepEqual on two Node values: the same pointer, or two objects of the same
\* dynamic type whose fields are deeply equal; a pair under comparison counts as equal
RECURSIVE DeepEqual(_, _, _, _)
DeepEqual(h, a, b, visited) ==
    IF a = b THEN TRUE
    ELSE IF a = Nil \/ b = Nil THEN FALSE
    ELSE IF h[a].kind # h[b].kind THEN FALSE
    ELSE IF <<a, b>> \in visited THEN TRUE
    ELSE /\ h[a].element = h[b].element
         /\ h[a].isRoot = h[b].isRoot
         /\ h[a].numChildren = h[b].numChildren
         /\ h[a].isHead = h[b].isHead
         /\ h[a].isTail = h[b].isTail
         /\ NumSlots(h[a]) = NumSlots(h[b])
         /\ \A i \in DOMAIN h[a].children :
                DeepEqual(h, h[a].children[i], h[b].children[i], visited \cup {<<a, b>>})
         /\ DeepEqual(h, h[a].parent, h[b].parent, visited \cup {<<a, b>>})
         /\ DeepEqual(h, h[a].next, h[b].next, visited \cup {<<a, b>>})
         /\ DeepEqual(h, h[a].previous, h[b].previous, visited \cup {<<a, b>>})

\* ret: whether the pointer is the end-of-string child of its parent; the child is
\* fetched from s.pointer.Parent() before anything is tested, which panics at the root
processedEndOfString(M, element) ==
    IF M.ptr = Nil THEN Panic(M)
    ELSE The({IF Faulted(C) THEN C
              ELSE IF M.dg = noDigitizer THEN Panic(M)
              ELSE Ret(M, /\ IsPrefixFreeOf(M.dg)
                          /\ ~M.heap[M.ptr].isRoot
                          /\ DeepEqual(M.heap, IF C.ret = childNotFound THEN Nil ELSE C.ret,
                                       M.ptr, {})) :
              C \in {ChildWithIndexOf(M, M.heap[M.ptr].parent, 0)}})

\* elementsInSubtree; the sink is in ret.  depth bounds the recursion, which a tree
\* with a cycle would not end.
RECURSIVE elementsInSubtree(_, _, _)
RECURSIVE elementsLoop(_, _, _, _)
elementsLoop(M, i, collection, depth) ==
    IF M.dg = noDigitizer THEN Panic(M)
    ELSE IF ~(i < Base) THEN Ret(M, collection)
    ELSE The({IF Faulted(D) THEN D
              ELSE IF D.ret = childNotFound THEN elementsLoop(M, i + 1, collection, depth)
              ELSE The({IF Faulted(E) THEN E
                        ELSE The({IF Faulted(A) THEN A
                                  ELSE elementsLoop(A, i + 1, E.ret, depth) :
                                  A \in {ascend(E)}}) :
                        E \in {elementsInSubtree(D, collection, depth - 1)}}) :
              D \in {descendToIndex(M, i)}})

elementsInSubtree(M, collection, depth) ==
    IF depth = 0 THEN Hang(M)
    ELSE IF atLeaf(M) THEN Ret(M, arrayListAdd(collection, M.heap[M.ptr].element))
    ELSE elementsLoop(M, 0, collection, depth)

\* Completions, after the search: F is the machine after find, its result in ret
completionsOf(F, prefix, collection) ==
    The({IF Faulted(A) THEN A
         ELSE IF F.ret = Prefix \/ F.ret = Matched
                 \/ A.bp = (IF IsPrefixFree THEN NumDigitsOf(prefix) - 1
                            ELSE NumDigitsOf(prefix))
              THEN elementsInSubtree(A, collection, MaxNodes)
         ELSE Ret(A, collection) :
         A \in {IF IsPrefixFree
                THEN The({IF Faulted(P) THEN P ELSE IF P.ret THEN ascend(P) ELSE P :
                          P \in {processedEndOfString(F, prefix)}})
                ELSE F}})

Completions(M, prefix, collection) ==
    IF ~IsEmpty(M)
    THEN The({IF Faulted(F) THEN F ELSE completionsOf(F, prefix, collection) :
              F \in {find(M, prefix)}})
    ELSE Ret(M, collection)

LongestCommonPrefix(M, prefix, collection) ==
    IF ~IsEmpty(M)
    THEN The({IF Faulted(F) THEN F
              ELSE The({IF Faulted(P) THEN P
                        ELSE elementsInSubtree(IF P.ret THEN ascend(P) ELSE P,
                                               collection, MaxNodes) :
                        P \in {processedEndOfString(F, prefix)}}) :
              F \in {find(M, prefix)}})
    ELSE Ret(M, collection)

(***************************************************************************)
(* radix_tree.go: the exported methods of a radixTree.  radixTree embeds   *)
(* *trie and declares none of them, so each is the method of the embedded  *)
(* trie, run with the *trie as its receiver: the find, addNode and remove  *)
(* it calls are those of trie.                                             *)
(***************************************************************************)
radixTree_Add(M, element) == Add(M, element)

radixTree_AddAll(M, collection) == AddAll(M, collection)

\* Remove as it would run if the remove it calls were the one of radixTree
radixTree_Remove_Overridden(M, element) ==
    IF IsEmpty(M) THEN Ret(M, FALSE)
    ELSE The({IF Faulted(F) THEN F
              ELSE IF F.ret # Matched THEN Ret(F, FALSE)
              ELSE The({IF Faulted(R) THEN R ELSE Ret(R, TRUE) :
                        R \in {radixTree_remove(F, F.ptr)}}) :
              F \in {find(M, element)}})

radixTree_Remove(M, element) == Remove(M, element)

radixTree_Contains(M, element) == Contains(M, element)

radixTree_Min(M) == Min(M)

radixTree_Max(M) == Max(M)

radixTree_Predecessor(M, element) == Predecessor(M, element)

radixTree_Successor(M, element) == Successor(M, element)

radixTree_Completions(M, prefix, collection) == Completions(M, prefix, collection)

radixTree_LongestCommonPrefix(M, prefix, collection) ==
    LongestCommonPrefix(M, prefix, collection)

radixTree_Values(M) == Values(M)

radixTree_Clear(M) == Clear(M)

(***************************************************************************)
(* The garbage collector.  An object no reference reaches from the trie    *)
(* (its head, tail and root) is gone.  An identifier stands for an         *)
(* address, which the program only ever compares for equality, so the      *)
(* collector is free to move the objects it keeps: it numbers them in the  *)
(* order a breadth-first walk from head, tail and root meets them.         *)
(***************************************************************************)
RefSeq(c) ==
    [i \in 1..NumSlots(c) |-> c.children[i - 1]] \o <<c.next, c.previous, c.parent>>

\* The objects met, in order: "order" holds those met so far, of which the first "done"
\* have had their references followed; "at" is the place of each in the order.
\* Following the references refs[k..]: each object not met before joins the order.
RECURSIVE Visit(_, _, _, _, _)
Visit(h, refs, k, order, at) ==
    IF k > Len(refs) THEN [order |-> order, at |-> at]
    ELSE IF refs[k] = Nil \/ at[refs[k]] # Nil THEN Visit(h, refs, k + 1, order, at)
    ELSE Visit(h, refs, k + 1, Append(order, refs[k]),
               [at EXCEPT ![refs[k]] = Len(order) + 1])

RECURSIVE Trace(_, _, _, _)
Trace(h, order, at, done) ==
    IF done = Len(order) THEN [order |-> order, at |-> at]
    ELSE The({Trace(h, V.order, V.at, done + 1) :
              V \in {Visit(h, RefSeq(h[order[done + 1]]), 1, order, at)}})

\* Object c moved: its references are to the new places.
Moved(c, to) ==
    [c EXCEPT !.parent = to[@], !.next = to[@], !.previous = to[@],
              !.children = [i \in DOMAIN @ |-> to[@[i]]]]

\* The heap and the root after a collection.
Collect(h, r) ==
    The({[heap |-> [i \in Ids |-> IF i <= Len(T.order) THEN Moved(h[T.order[i]], T.at)
                                  ELSE FreeCell],
          root |-> T.at[r]] :
         T \in {Trace(h, IF r = Nil THEN <<head, tail>> ELSE <<head, tail, r>>,
                      [i \in 0..MaxNodes |-> IF i = Nil THEN Nil
                                              ELSE IF i = head THEN 1
                                              ELSE IF i = tail THEN 2
                                              ELSE IF i = r THEN 3 ELSE Nil],
                      0)}})

(***************************************************************************)
(* The state machine.  heap, root and size are the trie; last is the last  *)
(* call with its argument and result; fault tells whether a call panicked  *)
(* or hung (the program is over then).  live and net are history: the      *)
(* elements whose Add returned nil and were not removed since, and the     *)
(* number of Adds that returned nil minus the number of Removes that       *)
(* returned true since the last Clear.                                     *)
(***************************************************************************)
\* newTrieWithDigitizer: head.SetNext(tail); tail.SetNext(head); no root yet
newTrieWithDigitizer(d) ==
    /\ heap = [i \in Ids |-> IF i = head THEN [newHeadNode EXCEPT !.next = tail]
                             ELSE IF i = tail THEN [newTailNode EXCEPT !.next = head]
                             ELSE FreeCell]
    /\ root = Nil
    /\ size = 0
    /\ digitizer = d
    /\ arrayList = << >>
    /\ iterator = Nil
    /\ last = [op |-> "NewTrie", arg |-> NilValue, ret |-> NilValue]
    /\ fault = "none"
    /\ live = {}
    /\ net = 0

\* NewTrie(alphabetSize): the trie with the string digitizer
Init == newTrieWithDigitizer(stringDigitizer)

\* NewTrieWithDigitizer(d) with a digitizer whose IsPrefixFree() is false
InitPlain == newTrieWithDigitizer(plainDigitizer)

Cur == Machine(heap, root, size)

\* The trie newTrie returns: the two sentinels, no root, no element.
newTrie ==
    Machine([i \in Ids |-> IF i = head THEN [newHeadNode EXCEPT !.next = tail]
                           ELSE IF i = tail THEN [newTailNode EXCEPT !.next = head]
                           ELSE FreeCell],
            Nil, 0)

\* The trie after a call that ended in machine M.
Commit(M) ==
    \E C \in {IF Faulted(M) \/ (M.heap = heap /\ M.root = root)
              THEN [heap |-> M.heap, root |-> M.root]
              ELSE Collect(M.heap, M.root)} :
        /\ heap' = C.heap
        /\ root' = C.root
        /\ size' = M.size
        /\ fault' = M.fault
        /\ UNCHANGED <<digitizer, arrayList, iterator>>

Result(op, arg, M, ret) ==
    [op |-> op, arg |-> arg, ret |-> IF Faulted(M) THEN M.fault ELSE ret]

SameKey(x, y) == LowerString(x) = LowerString(y)

ErrorOf(b) == IF b THEN "error" ELSE "nil"

DoAdd(x) ==
    /\ fault = "none"
    /\ \E M \in {Add(Cur, x)} :
        /\ M.size <= MaxSize
        /\ Commit(M)
        /\ last' = Result("Add", x, M, ErrorOf(M.ret))
        /\ live' = IF ~Faulted(M) /\ M.ret = FALSE THEN live \cup {x} ELSE live
        /\ net' = IF ~Faulted(M) /\ M.ret = FALSE THEN net + 1 ELSE net

DoRemove(x) ==
    /\ fault = "none"
    /\ \E M \in {Remove(Cur, x)} :
        /\ Commit(M)
        /\ last' = Result("Remove", x, M, M.ret)
        /\ live' = IF ~Faulted(M) /\ M.ret = TRUE THEN {y \in live : ~SameKey(x, y)} ELSE live
        /\ net' = IF ~Faulted(M) /\ M.ret = TRUE THEN net - 1 ELSE net

\* The elements of collection c that AddAll added when it returned r (see AddAll's ret).
Added(c, r) ==
    IF c = NilValue THEN {}
    ELSE {c[i] : i \in 1..(IF r = 0 THEN Len(c) ELSE r - 1)}

DoAddAll(c) ==
    /\ fault = "none"
    /\ \E M \in {AddAll(Cur, c)} :
        /\ M.size <= MaxSize
        /\ Commit(M)
        /\ last' = Result("AddAll", c, M, ErrorOf(M.ret # 0))
        /\ live' = IF ~Faulted(M) THEN live \cup Added(c, M.ret) ELSE live
        /\ net' = IF ~Faulted(M) THEN net + Cardinality(Added(c, M.ret)) ELSE net

DoClear ==
    /\ fault = "none"
    /\ \E M \in {Clear(Cur)} :
        /\ Commit(M)
        /\ last' = Result("Clear", NilValue, M, NilValue)
        /\ live' = {}
        /\ net' = 0

\* A call that only reads: its result is recorded.
Query(op, arg, M) ==
    /\ fault = "none"
    /\ Commit(M)
    /\ last' = Result(op, arg, M, M.ret)
    /\ UNCHANGED <<live, net>>

DoContains(x) == \E M \in {Contains(Cur, x)} : Query("Contains", x, M)
DoPredecessor(x) == \E M \in {Predecessor(Cur, x)} : Query("Predecessor", x, M)
DoSuccessor(x) == \E M \in {Successor(Cur, x)} : Query("Successor", x, M)
DoMin == \E M \in {Min(Cur)} : Query("Min", NilValue, M)
DoMax == \E M \in {Max(Cur)} : Query("Max", NilValue, M)
DoValues == \E M \in {Values(Cur)} : Query("Values", NilValue, M)
DoSize == \E M \in {Ret(Cur, Size(Cur))} : Query("Size", NilValue, M)
DoIsEmpty == \E M \in {Ret(Cur, IsEmpty(Cur))} : Query("IsEmpty", NilValue, M)

\* The sinks handed to the prefix queries: an empty list, and a list that holds "b".
Sinks == {<<>>, <<<<98>>>>}

\* The strings handed to the prefix queries: the lower-case elements, and "A".
Prefixes == {x \in Elements : \A i \in 1..Len(x) : x[i] >= 97} \cup {<<65>>}

\* A prefix query: the call, its argument and the sink it was handed, and the sink after.
DoCompletions(p, out) ==
    \E M \in {Completions(Cur, p, out)} :
        Query("Completions", [prefix |-> p, out |-> out], M)

DoLongestCommonPrefix(p, out) ==
    \E M \in {LongestCommonPrefix(Cur, p, out)} :
        Query("LongestCommonPrefix", [prefix |-> p, out |-> out], M)

\* Building the trie and asking what it holds.
Next ==
    \/ \E x \in Elements : DoAdd(x)
    \/ \E c \in Collections : DoAddAll(c)
    \/ \E x \in Elements : DoRemove(x)
    \/ DoClear
    \/ \E x \in Elements : DoContains(x)
    \/ DoValues
    \/ DoSize
    \/ DoIsEmpty

Spec == Init /\ [][Next]_vars

\* Building the trie and asking for the order of its elements.
NextOrder ==
    \/ \E x \in Elements : DoAdd(x)
    \/ \E x \in Elements : DoRemove(x)
    \/ DoClear
    \/ \E x \in Elements : DoPredecessor(x)
    \/ \E x \in Elements : DoSuccessor(x)
    \/ DoMin
    \/ DoMax

SpecOrder == Init /\ [][NextOrder]_vars

\* Building the trie and asking for the elements under a prefix.
NextPrefix ==
    \/ \E x \in Elements : DoAdd(x)
    \/ \E x \in Elements : DoRemove(x)
    \/ DoClear
    \/ \E p \in Prefixes : \E out \in Sinks : DoCompletions(p, out)
    \/ \E p \in Prefixes : \E out \in Sinks : DoLongestCommonPrefix(p, out)

SpecPrefix == Init /\ [][NextPrefix]_vars

\* The operations on a trie whose digitizer is not prefix-free.
NextPlain ==
    \/ \E x \in Elements : DoAdd(x)
    \/ \E x \in Elements : DoRemove(x)
    \/ DoClear
    \/ \E x \in Elements : DoContains(x)

SpecPlain == InitPlain /\ [][NextPlain]_vars

\* The strings and the places the digitizer is asked about.
Strings == UNION {[1..n -> Chars] : n \in 0..(MaxLen + 1)}

Places == 0..(MaxLen + 2)

\* The calls of the methods of the trie's digitizer: the result is recorded.
DoBase ==
    /\ fault = "none"
    /\ last' = [op |-> "Base", arg |-> NilValue, ret |-> Base]
    /\ UNCHANGED <<heap, root, size, digitizer, arrayList, iterator, fault, live, net>>

DoIsPrefixFree ==
    /\ fault = "none"
    /\ last' = [op |-> "IsPrefixFree", arg |-> NilValue, ret |-> IsPrefixFree]
    /\ UNCHANGED <<heap, root, size, digitizer, arrayList, iterator, fault, live, net>>

DoNumDigitsOf(s) ==
    /\ fault = "none"
    /\ last' = [op |-> "NumDigitsOf", arg |-> s, ret |-> NumDigitsOf(s)]
    /\ UNCHANGED <<heap, root, size, digitizer, arrayList, iterator, fault, live, net>>

DoDigitOf(s, place) ==
    /\ fault = "none"
    /\ last' = [op |-> "DigitOf", arg |-> [element |-> s, place |-> place],
                ret |-> DigitOf(s, place)]
    /\ UNCHANGED <<heap, root, size, digitizer, arrayList, iterator, fault, live, net>>

NextDigitizer ==
    \/ DoBase
    \/ DoIsPrefixFree
    \/ \E s \in Strings : DoNumDigitsOf(s)
    \/ \E s \in Strings : \E place \in Places : DoDigitOf(s, place)

SpecDigitizer == Init /\ [][NextDigitizer]_vars

(***************************************************************************)
(* The methods of node called directly, as the code of package trie may:   *)
(* on a root node and on a leaf node, which has no child slots, with an    *)
(* internal node, the leaf node or nil for the child.                      *)
(***************************************************************************)
rootNode == 3
innerNode == 4
leafNode == 5

\* newRootNode(capacity), newNode(capacity) and newLeafNode() have been called
InitNode ==
    /\ heap = [i \in Ids |-> IF i = head THEN [newHeadNode EXCEPT !.next = tail]
                             ELSE IF i = tail THEN [newTailNode EXCEPT !.next = head]
                             ELSE IF i = rootNode THEN newRootNode(Base)
                             ELSE IF i = innerNode THEN newNode(Base)
                             ELSE IF i = leafNode THEN newLeafNode
                             ELSE FreeCell]
    /\ root = rootNode
    /\ size = 0
    /\ digitizer = stringDigitizer
    /\ arrayList = << >>
    /\ iterator = Nil
    /\ last = [op |-> "newNode", arg |-> NilValue, ret |-> NilValue]
    /\ fault = "none"
    /\ live = {}
    /\ net = 0

\* The nodes the methods are called on, the children handed to them, and the indexes.
Receivers == {rootNode, leafNode}

Children == {innerNode, leafNode, Nil}

SlotIndices == -1..(Base + 1)

\* The nodes after a call that ended in M, and what the call returned.
NodeCommit(op, arg, M, ret) ==
    /\ fault = "none"
    /\ heap' = M.heap
    /\ fault' = M.fault
    /\ last' = Result(op, arg, M, ret)
    /\ UNCHANGED <<root, size, digitizer, arrayList, iterator, live, net>>

DoAddChildWithIndexOf(n, index, child) ==
    \E M \in {AddChildWithIndexOf(Machine(heap, root, size), n, index, child)} :
        NodeCommit("AddChildWithIndexOf", [node |-> n, index |-> index, child |-> child],
                   M, ErrorOf(M.ret))

DoChildWithIndexOf(n, index) ==
    \E M \in {ChildWithIndexOf(Machine(heap, root, size), n, index)} :
        NodeCommit("ChildWithIndexOf", [node |-> n, index |-> index], M, M.ret)

DoRemoveChildWithIndexOf(n, index) ==
    \E M \in {RemoveChildWithIndexOf(Machine(heap, root, size), n, index)} :
        NodeCommit("RemoveChildWithIndexOf", [node |-> n, index |-> index], M, M.ret)

DoHasChildren(n) ==
    /\ fault = "none"
    /\ last' = [op |-> "HasChildren", arg |-> [node |-> n], ret |-> HasChildren(heap[n])]
    /\ UNCHANGED <<heap, root, size, digitizer, arrayList, iterator, fault, live, net>>

NextNode ==
    \/ \E n \in Receivers : \E index \in SlotIndices : \E child \in Children :
        DoAddChildWithIndexOf(n, index, child)
    \/ \E n \in Receivers : \E index \in SlotIndices : DoChildWithIndexOf(n, index)
    \/ \E n \in Receivers : \E index \in SlotIndices : DoRemoveChildWithIndexOf(n, index)
    \/ \E n \in Receivers : DoHasChildren(n)

SpecNode == InitNode /\ [][NextNode]_vars

(***************************************************************************)
(* An iterator of the trie in use while elements are removed: the trie is  *)
(* built, newIterator(t, t.head) is called, and advance, get and remove of *)
(* the iterator interleave with Remove of the trie.  The objects the       *)
(* iterator can still reach are kept.                                      *)
(***************************************************************************)
\* The trie with the iterator.
CurIterator == [Cur EXCEPT !.it = iterator]

\* The trie and the iterator after a call that ended in M.
IteratorCommit(op, arg, M, ret) ==
    /\ fault = "none"
    /\ iterator # Nil
    /\ heap' = M.heap
    /\ root' = M.root
    /\ size' = M.size
    /\ iterator' = M.it
    /\ fault' = M.fault
    /\ last' = Result(op, arg, M, ret)
    /\ UNCHANGED <<digitizer, arrayList>>

DoBuild(x) == iterator = Nil /\ DoAdd(x)

DoNewIterator ==
    /\ fault = "none"
    /\ iterator = Nil
    /\ iterator' = newIterator(Cur, head).it
    /\ last' = [op |-> "newIterator", arg |-> NilValue, ret |-> NilValue]
    /\ UNCHANGED <<heap, root, size, digitizer, arrayList, fault, live, net>>

DoAdvance ==
    /\ iterator # Nil
    /\ \E M \in {advance(CurIterator)} :
            /\ IteratorCommit("advance", NilValue, M, M.ret)
            /\ UNCHANGED <<live, net>>

DoGet ==
    /\ iterator # Nil
    /\ \E M \in {Ret(CurIterator, get(CurIterator))} :
            /\ IteratorCommit("get", NilValue, M, M.ret)
            /\ UNCHANGED <<live, net>>

DoIteratorRemove ==
    /\ iterator # Nil
    /\ \E M \in {iteratorRemove(CurIterator)} :
            /\ IteratorCommit("remove", NilValue, M, NilValue)
            /\ live' = IF inCollection(CurIterator)
                       THEN {y \in live : ~SameKey(get(CurIterator), y)} ELSE live
            /\ net' = IF inCollection(CurIterator) THEN net - 1 ELSE net

DoRemoveDuring(x) ==
    /\ iterator # Nil
    /\ \E M \in {Remove(CurIterator, x)} :
            /\ IteratorCommit("Remove", x, M, M.ret)
            /\ live' = IF ~Faulted(M) /\ M.ret = TRUE THEN {y \in live : ~SameKey(x, y)} ELSE live
            /\ net' = IF ~Faulted(M) /\ M.ret = TRUE THEN net - 1 ELSE net

\* The elements of the trie that is iterated over: the lower-case ones.
IteratorElements == {x \in Elements : \A i \in 1..Len(x) : x[i] >= 97}

NextIterator ==
    \/ \E x \in IteratorElements : DoBuild(x)
    \/ DoNewIterator
    \/ DoAdvance
    \/ DoGet
    \/ DoIteratorRemove
    \/ \E x \in IteratorElements : DoRemoveDuring(x)

SpecIterator == Init /\ [][NextIterator]_vars

\* Operations that take a search context from the pool, one after the other, on a
\* trie of lower-case elements.
NextPool ==
    \/ \E x \in IteratorElements : DoAdd(x)
    \/ \E x \in IteratorElements : DoRemove(x)
    \/ \E x \in IteratorElements : DoContains(x)
    \/ \E x \in IteratorElements : DoPredecessor(x)

SpecPool == Init /\ [][NextPool]_vars

\* Strings with characters outside the alphabet: the first letter after the alphabet
\* (its digit is Base), the letter after that (its digit is Base + 1), and '!', a
\* byte below 'a' (the subtraction in DigitOf wraps).
WideChars == {97, 97 + AlphabetSize, 98 + AlphabetSize, 33}

\* The empty string, the strings of one such character, and those after the letter a.
WideElements == {<< >>} \cup {<<c>> : c \in WideChars} \cup {<<97, c>> : c \in WideChars}

\* The operations on a trie that is handed such strings.
NextWide ==
    \/ \E x \in WideElements : DoAdd(x)
    \/ \E x \in WideElements : DoRemove(x)
    \/ \E x \in WideElements : DoContains(x)

SpecWide == Init /\ [][NextWide]_vars

\* NewRadixTree(capacity): a radixTree around newTrieWithDigitizer(NewStringDigitizer(capacity))
NewRadixTree == newTrieWithDigitizer(stringDigitizer)

\* The operations on a radix tree, with lower-case elements.
DoRadixAdd(x) ==
    /\ fault = "none"
    /\ \E M \in {radixTree_Add(Cur, x)} :
        /\ M.size <= MaxSize
        /\ Commit(M)
        /\ last' = Result("Add", x, M, ErrorOf(M.ret))
        /\ live' = IF ~Faulted(M) /\ M.ret = FALSE THEN live \cup {x} ELSE live
        /\ net' = IF ~Faulted(M) /\ M.ret = FALSE THEN net + 1 ELSE net

DoRadixRemove(x) ==
    /\ fault = "none"
    /\ \E M \in {radixTree_Remove(Cur, x)} :
        /\ Commit(M)
        /\ last' = Result("Remove", x, M, M.ret)
        /\ live' = IF ~Faulted(M) /\ M.ret = TRUE THEN {y \in live : ~SameKey(x, y)} ELSE live
        /\ net' = IF ~Faulted(M) /\ M.ret = TRUE THEN net - 1 ELSE net

DoRadixClear ==
    /\ fault = "none"
    /\ \E M \in {radixTree_Clear(Cur)} :
        /\ Commit(M)
        /\ last' = Result("Clear", NilValue, M, NilValue)
        /\ live' = {}
        /\ net' = 0

DoRadixContains(x) ==
    /\ fault = "none"
    /\ \E M \in {radixTree_Contains(Cur, x)} :
        /\ Commit(M)
        /\ last' = Result("Contains", x, M, M.ret)
        /\ UNCHANGED <<live, net>>

NextRadix ==
    \/ \E x \in IteratorElements : DoRadixAdd(x)
    \/ \E x \in IteratorElements : DoRadixRemove(x)
    \/ DoRadixClear
    \/ \E x \in IteratorElements : DoRadixContains(x)

SpecRadix == NewRadixTree /\ [][NextRadix]_vars

\* The elements put into the array list, and the positions asked for.
ListValues == {<<97>>, <<98>>}

Indices == -1..(MaxListLen + 1)

\* The array list after a call that ended in R, and what the call returned.
ListCommit(op, arg, R) ==
    /\ fault = "none"
    /\ Len(R.elements) <= MaxListLen
    /\ arrayList' = R.elements
    /\ fault' = R.fault
    /\ last' = [op |-> op, arg |-> arg,
                ret |-> IF R.fault # "none" THEN R.fault
                        ELSE [value |-> R.ret, err |-> R.err]]
    /\ UNCHANGED <<heap, root, size, digitizer, iterator, live, net>>

DoListAdd(e) ==
    \E R \in {ListRet(arrayListAdd(arrayList, e), NilValue, FALSE)} : ListCommit("Add", e, R)
DoAddFirst(e) == \E R \in {arrayListAddFirst(arrayList, e)} : ListCommit("AddFirst", e, R)
DoAddLast(e) == \E R \in {arrayListAddLast(arrayList, e)} : ListCommit("AddLast", e, R)
DoAddWithIndex(i, e) ==
    \E R \in {arrayListAddWithIndex(arrayList, i, e)} :
        ListCommit("AddWithIndex", [index |-> i, element |-> e], R)
DoValueWithIndex(i) ==
    \E R \in {arrayListValueWithIndex(arrayList, i)} : ListCommit("ValueWithIndex", i, R)
DoIndexOf(e) == \E R \in {arrayListIndexOf(arrayList, e)} : ListCommit("IndexOf", e, R)
DoListContains(e) == \E R \in {arrayListContains(arrayList, e)} : ListCommit("Contains", e, R)
DoListRemove(e) == \E R \in {arrayListRemove(arrayList, e)} : ListCommit("Remove", e, R)
DoRemoveFirst == \E R \in {arrayListRemoveFirst(arrayList)} : ListCommit("RemoveFirst", NilValue, R)
DoRemoveLast == \E R \in {arrayListRemoveLast(arrayList)} : ListCommit("RemoveLast", NilValue, R)
DoRemoveWithIndex(i) ==
    \E R \in {arrayListRemoveWithIndex(arrayList, i)} : ListCommit("RemoveWithIndex", i, R)
DoListClear == \E R \in {arrayListClear(arrayList)} : ListCommit("Clear", NilValue, R)

NextList ==
    \/ \E e \in ListValues : DoListAdd(e)
    \/ \E e \in ListValues : DoAddFirst(e)
    \/ \E e \in ListValues : DoAddLast(e)
    \/ \E i \in Indices : \E e \in ListValues : DoAddWithIndex(i, e)
    \/ \E i \in Indices : DoValueWithIndex(i)
    \/ \E e \in ListValues : DoIndexOf(e)
    \/ \E e \in ListValues : DoListContains(e)
    \/ \E e \in ListValues : DoListRemove(e)
    \/ DoRemoveFirst
    \/ DoRemoveLast
    \/ \E i \in Indices : DoRemoveWithIndex(i)
    \/ DoListClear

\* NewArrayList, then the calls of a client of the list.
SpecList == Init /\ [][NextList]_vars

(***************************************************************************)
(* The vocabulary of the properties.  None of it reads the trie's code:    *)
(* the digit sequence of a string is written down from the alphabet, and   *)
(* the order of the elements is the lexicographic order of those.          *)
(***************************************************************************)
\* The place of a letter in the alphabet, whatever its case: 'a' and 'A' are 1.
LetterIndex(c) == IF c >= 97 THEN c - 96 ELSE c - 64

\* The case-insensitive digit sequence of a string, the terminator 0 at its end.
Key(x) == [i \in 1..(Len(x) + 1) |-> IF i <= Len(x) THEN LetterIndex(x[i]) ELSE 0]

\* s is a prefix of t
IsPrefixOf(s, t) == Len(s) <= Len(t) /\ \A i \in 1..Len(s) : s[i] = t[i]

\* s comes before t in lexicographic order
SeqLess(s, t) ==
    \/ Len(s) < Len(t) /\ IsPrefixOf(s, t)
    \/ \E k \in 1..Len(s) :
        /\ k <= Len(t)
        /\ \A j \in 1..(k - 1) : s[j] = t[j]
        /\ s[k] < t[k]

KeyLess(x, y) == SeqLess(Key(x), Key(y))

\* The strings the queries are put to: the elements, and the strings one letter longer.
Probes == UNION {[1..n -> Chars] : n \in 0..(MaxLen + 1)}

\* x is stored: a string equal to it ignoring case was added and not removed since
Stored(x) == \E y \in live : Key(y) = Key(x)

\* v lists the elements of the set S, each once, in ascending order
ListsInOrder(v, S) ==
    /\ {v[i] : i \in 1..Len(v)} = S
    /\ \A i \in 1..Len(v) : \A j \in 1..Len(v) : i < j => KeyLess(v[i], v[j])

\* What the calls return in the current state.
ValuesNow == Values(Cur).ret
ContainsNow(x) == Contains(Cur, x).ret
NoFault == fault = "none" /\ ~Faulted(Values(Cur))

\* C1: after any sequence of Add, AddAll, Remove and Clear, Values() lists exactly the
\* live elements, without duplicates, in ascending lexicographic order of their
\* case-insensitive digit sequences, whatever the order of insertion.
C1_ValuesSorted == NoFault /\ \E v \in {ValuesNow} : ListsInOrder(v, live)

\* C1's case: three elements are stored and the one added last is the middle one.
C1_Witness ==
    /\ last.op = "Add" /\ last.ret = "nil"
    /\ \E v \in {ValuesNow} : Len(v) = 3 /\ v[2] = last.arg

\* C2: Size() is the number of Adds that returned nil minus the number of Removes that
\* returned true, counted since the last Clear; it is the length of Values(); and
\* IsEmpty() is true exactly when it is 0.
C2_SizeCounts ==
    /\ NoFault
    /\ Size(Cur) = net
    /\ Size(Cur) = Len(ValuesNow)
    /\ IsEmpty(Cur) = (net = 0)

\* C2's case: a Remove returned true and two elements are left.
C2_Witness == last.op = "Remove" /\ last.ret = TRUE /\ net = 2 /\ Size(Cur) = 2

\* C3: Contains(x) is true exactly when a string equal to x ignoring case was added
\* and not removed since; it is false for a proper prefix or extension of a stored
\* string that was not added itself.
C3_ContainsExact ==
    /\ fault = "none"
    /\ \A x \in Probes : \E C \in {Contains(Cur, x)} : ~Faulted(C) /\ (C.ret = Stored(x))

\* C3's case: "ab" is stored, "a" is not, and Contains("a") returned false.
C3_Witness ==
    /\ last.op = "Contains" /\ last.arg = <<97>> /\ last.ret = FALSE
    /\ live = {<<97, 98>>}
    /\ ContainsNow(<<65, 66>>) /\ ~ContainsNow(<<97, 98, 97>>)

\* The state a step arrives in, and what the calls return there.
CurNext == Machine(heap', root', size')
ValuesNext == Values(CurNext).ret

\* The list v without the elements equal to x ignoring case.
Without(v, x) == SelectSeq(v, LAMBDA y : Key(y) # Key(x))

\* C4: Remove(x) of a present element returns true, decrements Size() by 1 and removes
\* x, and only x, from Values(); Remove(x) of an absent element, or on an empty trie,
\* returns false and leaves Size(), Values() and the tree unchanged; a second Remove of
\* the same element returns false.
C4_RemoveExact ==
    [][last'.op = "Remove" =>
        \E x \in {last'.arg} :
            IF Stored(x)
            THEN /\ fault' = "none"
                 /\ last'.ret = TRUE
                 /\ size' = size - 1
                 /\ ValuesNext = Without(ValuesNow, x)
                 /\ Len(ValuesNext) = Len(ValuesNow) - 1
                 /\ \E R \in {Remove(CurNext, x)} : ~Faulted(R) /\ R.ret = FALSE
            ELSE /\ fault' = "none"
                 /\ last'.ret = FALSE
                 /\ size' = size
                 /\ ValuesNext = ValuesNow
                 /\ heap' = heap /\ root' = root]_vars

\* C4's case: the middle one of three elements was removed.
C4_Witness ==
    /\ last.op = "Remove" /\ last.ret = TRUE
    /\ \E v \in {ValuesNow} :
        Len(v) = 2 /\ KeyLess(v[1], last.arg) /\ KeyLess(last.arg, v[2])

\* C5: Add(x) of a string whose digit sequence is already stored (the same string
\* ignoring case) returns a non-nil error and leaves Size(), Values(), the tree and the
\* order list unchanged.
C5_DuplicateRejected ==
    [][last'.op = "Add" /\ Stored(last'.arg) =>
        /\ last'.ret = "error"
        /\ size' = size
        /\ ValuesNext = ValuesNow
        /\ heap' = heap /\ root' = root]_vars

\* C5's case: "a" is stored and Add("A") returned an error.
C5_Witness ==
    /\ last.op = "Add" /\ last.arg = <<65>> /\ last.ret = "error"
    /\ <<97>> \in live /\ Size(Cur) = 2

\* The letters of a string, whatever their case: its digit sequence less the terminator.
Letters(x) == [i \in 1..Len(x) |-> LetterIndex(x[i])]

\* One of the strings x and y is a prefix of the other, ignoring case.
TextPrefixRelated(x, y) ==
    IsPrefixOf(Letters(x), Letters(y)) \/ IsPrefixOf(Letters(y), Letters(x))

\* One of the digit sequences of x and y, terminator included, is a prefix of the other.
DigitPrefixRelated(x, y) == IsPrefixOf(Key(x), Key(y)) \/ IsPrefixOf(Key(y), Key(x))

\* C6, as the specification states it: inserting a string that is a prefix of, or is
\* extended by, an already-present string fails with a PrefixViolation error and leaves
\* Size() and Values() unchanged.
C6_PrefixRejected ==
    [][last'.op = "Add" /\ (\E y \in live : TextPrefixRelated(last'.arg, y)) =>
        /\ last'.ret = "error"
        /\ size' = size
        /\ ValuesNext = ValuesNow]_vars

\* C6, amended: inserting a string whose digit sequence, terminator included, is a
\* prefix of, or is extended by, the digit sequence of an already-present string fails
\* with a PrefixViolation error and leaves Size() and Values() unchanged; an insertion
\* that fails is of such a string.
C6_DigitPrefixRejected ==
    [][last'.op = "Add" =>
        /\ (\E y \in live : DigitPrefixRelated(last'.arg, y)) <=> last'.ret = "error"
        /\ last'.ret = "error" => size' = size /\ ValuesNext = ValuesNow]_vars

\* C6's case: "ab" is stored, and Add("Ab") returned an error.
C6_Witness ==
    /\ last.op = "Add" /\ last.arg = <<65, 98>> /\ last.ret = "error"
    /\ live = {<<97, 98>>}

\* C7: with the string digitizer a string s and a proper prefix or extension t of it
\* can both be stored: with s present and t absent Add(t) returns nil, Size() grows by
\* 1, Contains is true of both, and the shorter precedes the longer in Values().
C7_PrefixCoexists ==
    [][last'.op = "Add" /\ ~Stored(last'.arg) =>
        \A s \in live : \E t \in {last'.arg} :
            TextPrefixRelated(s, t) =>
                /\ last'.ret = "nil"
                /\ size' = size + 1
                /\ \A y \in {s, t} : \E C \in {Contains(CurNext, y)} : ~Faulted(C) /\ C.ret
                /\ \E v \in {ValuesNext} : \E i, j \in 1..Len(v) :
                    /\ i < j
                    /\ {v[i], v[j]} = {s, t}
                    /\ Len(v[i]) < Len(v[j])]_vars

\* C7's case: "ab" is stored, and Add("a") returned nil.
C7_Witness ==
    /\ last.op = "Add" /\ last.arg = <<97>> /\ last.ret = "nil"
    /\ live = {<<97, 98>>, <<97>>}
    /\ ValuesNow = <<<<97>>, <<97, 98>>>>

\* The stored elements before x and after x in the order of the digit sequences.
Below(x) == {y \in live : KeyLess(y, x)}
Above(x) == {y \in live : KeyLess(x, y)}

\* The greatest and the least element of a set of elements, nil when it is empty.
Greatest(S) == IF S = {} THEN NilValue ELSE CHOOSE y \in S : \A z \in S : z = y \/ KeyLess(z, y)
Least(S) == IF S = {} THEN NilValue ELSE CHOOSE y \in S : \A z \in S : z = y \/ KeyLess(y, z)

\* C8: for every element X present, Predecessor(X) and Successor(X) are the elements
\* immediately before and after X in Values(); Predecessor of the minimum and
\* Successor of the maximum are nil.
C8_NeighboursOfPresent ==
    /\ fault = "none"
    /\ \E v \in {ValuesNow} : \A i \in 1..Len(v) : \A x \in {y \in Elements : Key(y) = Key(v[i])} :
        \E P \in {Predecessor(Cur, x)} : \E S \in {Successor(Cur, x)} :
            /\ ~Faulted(P) /\ ~Faulted(S)
            /\ P.ret = IF i = 1 THEN NilValue ELSE v[i - 1]
            /\ S.ret = IF i = Len(v) THEN NilValue ELSE v[i + 1]

\* C8's case: Predecessor of the middle one of three stored elements returned the first.
C8_Witness ==
    /\ last.op = "Predecessor"
    /\ \E v \in {ValuesNow} : Len(v) = 3 /\ last.arg = v[2] /\ last.ret = v[1]
    /\ Successor(Cur, last.arg).ret = ValuesNow[3]

\* C9: for every string x over the alphabet, present or absent, Predecessor(x) on a
\* non-empty trie is the greatest stored element strictly less than x in the order of
\* the digit sequences, and nil when no stored element is less than x.
C9_PredecessorOfAny ==
    /\ fault = "none"
    /\ ~IsEmpty(Cur) =>
        \A x \in Probes : \E P \in {Predecessor(Cur, x)} :
            ~Faulted(P) /\ P.ret = Greatest(Below(x))

\* C9's case: Predecessor of an absent string that lies between two stored elements.
C9_Witness ==
    /\ last.op = "Predecessor" /\ ~Stored(last.arg)
    /\ Below(last.arg) # {} /\ Above(last.arg) # {}
    /\ last.ret = Greatest(Below(last.arg))

\* C10: Successor(x) is the least stored element strictly greater than x, and nil only
\* when no stored element is greater than x; an absent x that sorts before every stored
\* element has Min() for its successor.
C10_SuccessorOfAny ==
    /\ fault = "none"
    /\ ~IsEmpty(Cur) =>
        \A x \in Probes : \E S \in {Successor(Cur, x)} :
            ~Faulted(S) /\ S.ret = Least(Above(x))

\* The first and the last element of a list, nil when the list is empty.
FirstOf(v) == IF Len(v) = 0 THEN NilValue ELSE v[1]
LastOf(v) == IF Len(v) = 0 THEN NilValue ELSE v[Len(v)]

\* C11: in every reachable state Min() is the first element of Values() and Max() is
\* the last element of Values(); both are nil when the trie is empty, also when it was
\* emptied by Remove or Clear.
C11_MinMaxEnds ==
    /\ fault = "none"
    /\ \E v \in {Values(Cur)} : \E lo \in {Min(Cur)} : \E hi \in {Max(Cur)} :
        /\ ~Faulted(v) /\ ~Faulted(lo) /\ ~Faulted(hi)
        /\ lo.ret = FirstOf(v.ret)
        /\ hi.ret = LastOf(v.ret)
        /\ IsEmpty(Cur) => lo.ret = NilValue /\ hi.ret = NilValue

\* C11's case: Max returned nil on a trie that Remove emptied, a root still in place.
C11_Witness ==
    /\ last.op = "Max" /\ last.ret = NilValue
    /\ root # Nil /\ IsEmpty(Cur) /\ net = 0
    /\ heap[tail].previous = head

\* The stored elements that start with p, ignoring case.
StartingWith(p) == {y \in live : IsPrefixOf(Letters(p), Letters(y))}

\* The list r is the list out followed by the elements of S in ascending order.
AppendsInOrder(r, out, S) ==
    /\ IsPrefixOf(out, r)
    /\ ListsInOrder(SubSeq(r, Len(out) + 1, Len(r)), S)
    /\ Len(r) = Len(out) + Cardinality(S)

\* C12: for every prefix p, the empty string and a prefix whose first letter occurs in
\* no stored element included, Completions(p, out) appends to out exactly the stored
\* elements that start with p ignoring case, in ascending order, and nothing when no
\* stored element starts with p.
C12_CompletionsExact ==
    /\ fault = "none"
    /\ \A p \in Probes : \A out \in Sinks : \E C \in {Completions(Cur, p, out)} :
        ~Faulted(C) /\ AppendsInOrder(C.ret, out, StartingWith(p))

\* The first k letters of e.
Take(e, k) == SubSeq(e, 1, k)

\* The depth of the deepest node of the trie on the digit path of e: the most letters
\* of e that some stored element starts with; the root, at depth 0, is always there.
DeepestShared(e) ==
    CHOOSE k \in 0..Len(e) :
        /\ k = 0 \/ StartingWith(Take(e, k)) # {}
        /\ \A j \in (k + 1)..Len(e) : StartingWith(Take(e, j)) = {}

\* C13: for every string e, LongestCommonPrefix(e, out) on a non-empty trie appends
\* exactly the stored elements under the deepest node of the trie that is on the digit
\* path of e, in ascending order; when not even the first digit of e has a branch, that
\* is the whole content of the trie.
C13_LongestCommonPrefixExact ==
    /\ fault = "none"
    /\ ~IsEmpty(Cur) =>
        \A e \in Probes : \A out \in Sinks : \E L \in {LongestCommonPrefix(Cur, e, out)} :
            /\ ~Faulted(L)
            /\ AppendsInOrder(L.ret, out, StartingWith(Take(e, DeepestShared(e))))

\* The call ended in a runtime panic.
Panicked(M) == M.fault = "panic"

\* C14: Remove, Contains, Predecessor, Successor, Completions and iteration (Values)
\* are total: in every trie state that Add, Remove and Clear reach and for every string
\* over the alphabet, each returns its result and never raises an error or a runtime
\* panic.
C14_QueriesTotal ==
    /\ fault # "panic"
    /\ ~Panicked(Values(Cur))
    /\ \A x \in Probes :
        /\ ~Panicked(Remove(Cur, x))
        /\ ~Panicked(Contains(Cur, x))
        /\ ~Panicked(Predecessor(Cur, x))
        /\ ~Panicked(Successor(Cur, x))
        /\ \A out \in Sinks : ~Panicked(Completions(Cur, x, out))

\* The call did not return: one of its loops never reached its exit.
Hung(M) == M.fault = "hang"

SameTrie(M, N) == N.heap = M.heap /\ N.root = M.root /\ N.size = M.size

\* The query that ended in machine Q left the trie of Cur alone and appended to out.
OnlyAppended(Q, out) ==
    /\ SameTrie(Cur, Q)
    /\ ~Faulted(Q) =>
        /\ IsPrefixOf(out, Q.ret)
        /\ IsEmpty(Cur) => Q.ret = out
        /\ \E V \in {Values([Q EXCEPT !.ret = Nil])} : ~Faulted(V) /\ V.ret = ValuesNow

\* C16: Completions and LongestCommonPrefix only append to the sink of the caller and
\* never change the trie: the elements already in the sink keep their positions, the
\* Size(), the Values() and the tree of the trie are as before the query, and on an
\* empty trie the sink is left exactly as it was.
C16_PrefixQueriesOnlyAppend ==
    \A p \in Prefixes : \A out \in Sinks :
        /\ OnlyAppended(Completions(Cur, p, out), out)
        /\ OnlyAppended(LongestCommonPrefix(Cur, p, out), out)

\* C16's case: Completions was handed a sink that held "b" and appended two elements.
C16_Witness ==
    /\ last.op = "Completions" /\ fault = "none"
    /\ last.arg.out = <<<<98>>>>
    /\ Len(last.ret) = 3 /\ last.ret[1] = <<98>>
    /\ Size(Cur) = 3

\* The position of the first element of the list c whose Add fails: one that is stored,
\* or that equals, ignoring case, an element before it in c; 0 when there is none.
FirstFailure(c) ==
    IF \E i \in 1..Len(c) : Stored(c[i]) \/ \E j \in 1..(i - 1) : Key(c[j]) = Key(c[i])
    THEN CHOOSE i \in 1..Len(c) :
            /\ Stored(c[i]) \/ \E j \in 1..(i - 1) : Key(c[j]) = Key(c[i])
            /\ \A k \in 1..(i - 1) :
                ~(Stored(c[k]) \/ \E j \in 1..(k - 1) : Key(c[j]) = Key(c[k]))
    ELSE 0

\* The elements of the list c before its first failure; all of them when there is none.
BeforeFailure(c) ==
    {c[i] : i \in 1..(IF FirstFailure(c) = 0 THEN Len(c) ELSE FirstFailure(c) - 1)}

\* C17: AddAll(c) inserts the elements of c in the iteration order of c and stops at the
\* first element whose Add fails: it returns that error, every element before the
\* failing one has been inserted and no element after it; AddAll(nil) returns nil and
\* changes nothing.
C17_AddAllStopsAtFailure ==
    /\ \E A \in {AddAll(Cur, NilValue)} : ~Faulted(A) /\ A.ret = 0 /\ SameTrie(Cur, A)
    /\ \A c \in Collections \ {NilValue} : \E A \in {AddAll(Cur, c)} :
        /\ ~Faulted(A)
        /\ A.ret = FirstFailure(c)
        /\ A.size = Size(Cur) + Cardinality(BeforeFailure(c))
        /\ \E V \in {Values([A EXCEPT !.ret = Nil])} :
            ~Faulted(V) /\ ListsInOrder(V.ret, live \cup BeforeFailure(c))

\* C17's case: with "a" stored, AddAll of "A" and "b" returned the error of "A", and "b"
\* was not inserted.
C17_Witness ==
    /\ last.op = "AddAll" /\ last.ret = "error"
    /\ last.arg = <<<<65>>, <<98>>>>
    /\ live = {<<97>>} /\ ValuesNow = <<<<97>>>>

\* The strings added one after the other to the trie of machine M: the machine after
\* the last Add, and in rets what each Add returned.
RECURSIVE AddEach(_, _, _, _)
AddEach(M, xs, i, rets) ==
    IF i > Len(xs) \/ Faulted(M) THEN [m |-> M, rets |-> rets]
    ELSE The({AddEach(A, xs, i + 1, Append(rets, IF Faulted(A) THEN A.fault ELSE ErrorOf(A.ret))) :
              A \in {Add(M, xs[i])}})

\* What a client sees of the trie of machine M after the Adds of xs: what the Adds
\* returned, Size() and Values().
Observed(M, xs) ==
    The({[rets |-> R.rets, fault |-> R.m.fault, size |-> Size(R.m),
          values |-> Values([R.m EXCEPT !.ret = Nil]).ret] :
         R \in {AddEach(M, xs, 1, <<>>)}})

\* The sequences of up to MaxSize Adds.
AddSequences == UNION {[1..n -> Elements] : n \in 0..MaxSize}

\* C18: Clear() removes every element: afterwards Size() is 0, Values() is empty,
\* Contains is false of every string and Min and Max return nil; the trie remains
\* usable: any sequence of Adds after Clear yields the Values() and the Size() that the
\* same sequence yields on a freshly constructed trie.
C18_ClearEmpties ==
    last.op = "Clear" =>
        /\ fault = "none"
        /\ Size(Cur) = 0 /\ IsEmpty(Cur)
        /\ \E V \in {Values(Cur)} : ~Faulted(V) /\ V.ret = <<>>
        /\ \A x \in Probes : \E C \in {Contains(Cur, x)} : ~Faulted(C) /\ ~C.ret
        /\ \E lo \in {Min(Cur)} : ~Faulted(lo) /\ lo.ret = NilValue
        /\ \E hi \in {Max(Cur)} : ~Faulted(hi) /\ hi.ret = NilValue
        /\ \A xs \in AddSequences : \E O \in {Observed(Cur, xs)} :
            O.fault = "none" /\ O = Observed(newTrie, xs)

\* C18's case: Clear has emptied a trie that held elements; its root is still in place.
C18_Witness ==
    /\ last.op = "Clear" /\ fault = "none"
    /\ root # Nil /\ heap[tail].previous = head
    /\ Observed(Cur, <<<<98>>, <<97>>>>).values = <<<<97>>, <<98>>>>

(***************************************************************************)
(* C19.  With a digitizer whose IsPrefixFree() is false, the search for x  *)
(* ends Matched, Prefix or Extension exactly when the digit sequence of x  *)
(* equals, is a proper prefix of, or properly extends the digit sequence   *)
(* of a stored element; Add(x) then returns an error and leaves the trie   *)
(* unchanged; Add succeeds only when the search ends Unmatched; and no     *)
(* stored digit sequence is a proper prefix of another.                    *)
(***************************************************************************)
\* the digit sequences of x and y are equal, or one is a proper prefix of the other
PlainRelated(x, y) ==
    IsPrefixOf(Letters(x), Letters(y)) \/ IsPrefixOf(Letters(y), Letters(x))

RejectedResults == {Matched, Prefix, Extension}

\* C19: with a digitizer that is not prefix-free, the search for x ends Matched, Prefix
\* or Extension exactly when the digit sequence of x equals, is a proper prefix of, or
\* properly extends that of a stored element; Add(x) then returns an error and leaves
\* the trie unchanged; Add succeeds only after Unmatched; no stored digit sequence is a
\* proper prefix of another.
C19_PlainAddRejectsRelated ==
    (digitizer = plainDigitizer /\ fault = "none") =>
        /\ \A x \in Elements : \E F \in {find(Cur, x)} : \E A \in {Add(Cur, x)} :
            /\ ~Faulted(F) /\ ~Faulted(A)
            /\ (F.ret \in RejectedResults) <=> (\E y \in live : PlainRelated(x, y))
            /\ (F.ret \in RejectedResults) => (A.ret = TRUE /\ SameTrie(Cur, A))
            /\ (A.ret = FALSE) => (F.ret = Unmatched)
        /\ \A y \in live : \A z \in live :
            IsPrefixOf(Letters(y), Letters(z)) => Letters(y) = Letters(z)

(***************************************************************************)
(* C20.  The string digitizer built for an alphabet of n letters reports   *)
(* Base() = n + 1 and IsPrefixFree() = true, NumDigitsOf(s) = len(s) + 1,  *)
(* and DigitOf(s, place) = 0 for place >= len(s) and otherwise the 1-based *)
(* index in the alphabet of the lower-cased character at that place: an    *)
(* upper-case and a lower-case letter give the same digit, which lies in   *)
(* 1..n for the first n letters.                                           *)
(***************************************************************************)
\* the string s with the letter at place (counted from 0) in the other case
OtherCase(s, place) ==
    [s EXCEPT ![place + 1] = IF @ >= 97 THEN @ - 32 ELSE @ + 32]

\* C20: Base() = n + 1, IsPrefixFree() = true, NumDigitsOf(s) = len(s) + 1, and
\* DigitOf(s, place) is 0 for place >= len(s) and otherwise the 1-based alphabet index
\* of the lower-cased character at place, the same for both cases of a letter and
\* within 1..n.
C20_StringDigitizer ==
    digitizer = stringDigitizer =>
        /\ last.op = "Base" => last.ret = AlphabetSize + 1
        /\ last.op = "IsPrefixFree" => last.ret = TRUE
        /\ last.op = "NumDigitsOf" => last.ret = Len(last.arg) + 1
        /\ last.op = "DigitOf" =>
            \E s \in {last.arg.element} : \E place \in {last.arg.place} :
                IF place >= Len(s) THEN last.ret = 0
                ELSE /\ last.ret = LetterIndex(s[place + 1])
                     /\ last.ret \in 1..AlphabetSize
                     /\ last.ret = DigitOf(OtherCase(s, place), place)

\* DigitOf was asked for an upper-case letter that is not the first of the string
C20_Witness ==
    /\ last.op = "DigitOf"
    /\ last.arg.element = <<98, 65>> /\ last.arg.place = 1
    /\ last.ret = 1

(***************************************************************************)
(* C21.  The string digitizer is prefix-free.                              *)
(***************************************************************************)
\* The string the digitizer was last asked about.
Digitized ==
    IF last.op = "NumDigitsOf" THEN {last.arg}
    ELSE IF last.op = "DigitOf" THEN {last.arg.element}
    ELSE {}

\* C21: for two strings that differ ignoring case, neither's full digit sequence
\* (NumDigitsOf digits, the terminator included) is a prefix of the other's; two strings
\* have the same digit sequence only if they are equal ignoring case.
C21_DigitsPrefixFree ==
    digitizer = stringDigitizer =>
        \A s \in Digitized : \A t \in Strings :
            /\ LowerString(s) # LowerString(t) =>
                /\ ~IsPrefixOf(Digits(s), Digits(t))
                /\ ~IsPrefixOf(Digits(t), Digits(s))
            /\ Digits(s) = Digits(t) => LowerString(s) = LowerString(t)

\* the terminator digit of "a" was read, at the place where "ab" has a letter
C21_Witness ==
    /\ last.op = "DigitOf"
    /\ last.arg.element = <<97>> /\ last.arg.place = 1
    /\ last.ret = 0 /\ DigitOf(<<97, 98>>, 1) # 0
    /\ IsPrefixOf(<<97>>, <<97, 98>>)

(***************************************************************************)
(* C22.  The index operations of the array list and bad indices.           *)
(***************************************************************************)
\* the call ended without a panic, in an error, and left the list l as it was
RejectedBy(R, l) == R.fault = "none" /\ R.err /\ R.elements = l

\* C22: AddWithIndex, ValueWithIndex and RemoveWithIndex return a non-nil error and
\* leave the list unchanged whenever index < 0 or index > Size() - 1 (index = Size()
\* and any index on an empty list included), and never panic.
C22_BadIndexIsError ==
    fault = "none" =>
        \A i \in Indices :
            /\ arrayListValueWithIndex(arrayList, i).fault = "none"
            /\ arrayListRemoveWithIndex(arrayList, i).fault = "none"
            /\ \A e \in ListValues : arrayListAddWithIndex(arrayList, i, e).fault = "none"
            /\ (i < 0 \/ i > arrayListSize(arrayList) - 1) =>
                /\ RejectedBy(arrayListValueWithIndex(arrayList, i), arrayList)
                /\ RejectedBy(arrayListRemoveWithIndex(arrayList, i), arrayList)
                /\ \A e \in ListValues :
                    RejectedBy(arrayListAddWithIndex(arrayList, i, e), arrayList)

(***************************************************************************)
(* C23.  The positions of the array list.                                  *)
(***************************************************************************)
\* the element of the list l at position k, counted from 0
At(l, k) == l[k + 1]

\* the list m is the list l with e put in at position i
InsertedAt(m, l, i, e) ==
    /\ Len(m) = Len(l) + 1
    /\ At(m, i) = e
    /\ \A k \in 0..(i - 1) : At(m, k) = At(l, k)
    /\ \A k \in i..(Len(l) - 1) : At(m, k + 1) = At(l, k)

\* the list m is the list l with the element at position i taken out
TakenOutAt(m, l, i) ==
    /\ Len(m) = Len(l) - 1
    /\ \A k \in 0..(i - 1) : At(m, k) = At(l, k)
    /\ \A k \in (i + 1)..(Len(l) - 1) : At(m, k - 1) = At(l, k)

\* the call ended without a panic and without an error
Succeeded(R) == R.fault = "none" /\ ~R.err

\* C23: for a valid index i, AddWithIndex(i, e) puts e at position i, moves the elements
\* formerly at i..Size()-1 up by one and grows Size() by 1; RemoveWithIndex(i) returns
\* the element at i, moves the elements formerly at i+1..Size()-1 down by one and shrinks
\* Size() by 1; Add and AddLast place the element at position Size(), AddFirst at
\* position 0; the relative order of the other elements never changes.
C23_PositionsConsistent ==
    fault = "none" =>
        /\ \A i \in 0..(arrayListSize(arrayList) - 1) :
            /\ \A e \in ListValues : \E R \in {arrayListAddWithIndex(arrayList, i, e)} :
                Succeeded(R) /\ InsertedAt(R.elements, arrayList, i, e)
            /\ \E R \in {arrayListRemoveWithIndex(arrayList, i)} :
                /\ Succeeded(R) /\ R.ret = At(arrayList, i)
                /\ TakenOutAt(R.elements, arrayList, i)
        /\ \A e \in ListValues :
            /\ InsertedAt(arrayListAdd(arrayList, e), arrayList, arrayListSize(arrayList), e)
            /\ \E R \in {arrayListAddLast(arrayList, e)} :
                Succeeded(R) /\ InsertedAt(R.elements, arrayList, arrayListSize(arrayList), e)
            /\ \E R \in {arrayListAddFirst(arrayList, e)} :
                Succeeded(R) /\ InsertedAt(R.elements, arrayList, 0, e)

\* "b" was put between two "a" by AddWithIndex(1, "b")
C23_Witness ==
    /\ fault = "none" /\ last.op = "AddWithIndex"
    /\ last.arg.index = 1 /\ last.arg.element = <<98>>
    /\ ~last.ret.err
    /\ arrayList = <<<<97>>, <<98>>, <<97>>>>

(***************************************************************************)
(* C24.  Remove, RemoveFirst and RemoveLast of the array list.             *)
(***************************************************************************)
\* the position of the first element of the list l that equals e
FirstPosition(l, e) == CHOOSE i \in 0..(Len(l) - 1) :
                           At(l, i) = e /\ \A j \in 0..(i - 1) : At(l, j) # e

Occurs(l, e) == \E i \in 0..(Len(l) - 1) : At(l, i) = e

\* C24: Remove(e) removes only the first element equal to e and returns true, leaving
\* later equal elements and the order of the rest intact; when no element equals e it
\* returns false and leaves the list unchanged, so removing a unique element twice
\* returns true, then false.  RemoveFirst and RemoveLast return nil and change nothing
\* on an empty list.
C24_RemoveFirstOccurrence ==
    fault = "none" =>
        /\ \A e \in ListValues : \E R \in {arrayListRemove(arrayList, e)} :
            /\ R.fault = "none"
            /\ IF Occurs(arrayList, e)
               THEN /\ R.ret = TRUE
                    /\ TakenOutAt(R.elements, arrayList, FirstPosition(arrayList, e))
                    /\ Cardinality({i \in 1..Len(arrayList) : arrayList[i] = e}) = 1 =>
                        \E S \in {arrayListRemove(R.elements, e)} :
                            S.fault = "none" /\ S.ret = FALSE /\ S.elements = R.elements
               ELSE R.ret = FALSE /\ R.elements = arrayList
        /\ arrayList = << >> =>
            /\ arrayListRemoveFirst(arrayList) = ListRet(<< >>, NilValue, FALSE)
            /\ arrayListRemoveLast(arrayList) = ListRet(<< >>, NilValue, FALSE)

\* Remove("a") took the first "a" out of a list of two "a" and a "b": [b, a] is left
C24_Witness ==
    /\ fault = "none" /\ last.op = "Remove" /\ last.arg = <<97>>
    /\ last.ret.value = TRUE
    /\ arrayList = <<<<98>>, <<97>>>>
    /\ Occurs(arrayList, <<97>>)

(***************************************************************************)
(* C25.  The tree and the order list hold the same leaves, and the paths   *)
(* of the tree spell the live elements.                                    *)
(***************************************************************************)
\* The root-to-leaf paths below node n of heap h, which is reached by the digits path:
\* the digits of each and the leaf it ends at.  A path longer than any element ends
\* at no leaf.
RECURSIVE PathsFrom(_, _, _, _)
PathsFrom(h, n, path, depth) ==
    IF h[n].kind = "leaf" THEN {[digits |-> path, leaf |-> n]}
    ELSE IF depth = 0 THEN {[digits |-> path, leaf |-> Nil]}
    ELSE UNION {PathsFrom(h, h[n].children[i], Append(path, i), depth - 1) :
                i \in {j \in DOMAIN h[n].children : h[n].children[j] # Nil}}

TreePathsOf(h, r) == IF r = Nil THEN {} ELSE PathsFrom(h, r, << >>, MaxLen + 1)

\* The leaves met by following next from leaf n up to tail; Nil is among them when the
\* links end before tail or run in a circle.
RECURSIVE LinkedFrom(_, _, _)
LinkedFrom(h, n, fuel) ==
    IF n = tail THEN {}
    ELSE IF n = Nil \/ fuel = 0 THEN {Nil}
    ELSE {n} \cup LinkedFrom(h, h[n].next, fuel - 1)

ListLeavesOf(h) == LinkedFrom(h, h[head].next, MaxNodes)

\* C25: in every state reachable by Add, Remove and Clear the digit sequences spelled by
\* the root-to-leaf paths of the tree are exactly the digit sequences of the live
\* elements, and the leaves reachable from the root are exactly the leaves linked
\* between head and tail in the order list.
C25_TreeMatchesList ==
    fault = "none" =>
        \E paths \in {TreePathsOf(heap, root)} :
            /\ {p.digits : p \in paths} = {Key(x) : x \in live}
            /\ {p.leaf : p \in paths} = ListLeavesOf(heap)

\* an element was removed, and two elements that share its first letter remain
C25_Witness ==
    /\ fault = "none" /\ last.op = "Remove" /\ last.ret = TRUE
    /\ last.arg = <<97>>
    /\ {Key(x) : x \in live} = {Key(<<97, 97>>), Key(<<97, 98>>)}
    /\ Cardinality(ListLeavesOf(heap)) = 2

(***************************************************************************)
(* C26.  The links of the order list.                                      *)
(***************************************************************************)
\* the leaves of heap h that are not sentinels
PlainLeaves(h) == {n \in Ids : h[n].kind = "leaf" /\ ~h[n].isHead /\ ~h[n].isTail}

\* the leaf n of heap h is tombstoned
Tombstoned(h, n) == n \in PlainLeaves(h) /\ h[n].previous = Nil

\* In heap h the leaves linked between head and tail are linked both ways, none of
\* them to a tombstoned leaf, and every other leaf (one taken out of the list) is
\* tombstoned.
LinksInOrder(h) ==
    \E linked \in {ListLeavesOf(h)} :
        /\ Nil \notin linked
        /\ \A n \in PlainLeaves(h) : (n \notin linked) <=> (h[n].previous = Nil)
        /\ \A n \in linked :
            /\ h[n].next # Nil /\ h[n].previous # Nil
            /\ h[h[n].previous].next = n
            /\ h[h[n].next].previous = n
            /\ ~Tombstoned(h, h[n].next) /\ ~Tombstoned(h, h[n].previous)

\* C26: a leaf that is no sentinel is tombstoned exactly when its previous link is nil;
\* every live leaf L has both links set, with L.previous.next = L and
\* L.next.previous = L; following next from head visits every live leaf exactly once
\* and then reaches tail; no live leaf's next or previous points to a tombstoned leaf.
\* The leaves an operation took out of the list are still in the heap it returns with.
C26_ListLinks ==
    fault = "none" =>
        /\ LinksInOrder(heap)
        /\ Cardinality(ListLeavesOf(heap)) = Cardinality({Key(x) : x \in live})
        /\ {Key(heap[n].element) : n \in ListLeavesOf(heap)} = {Key(x) : x \in live}
        /\ \A x \in Elements :
            /\ \E R \in {Remove(Cur, x)} : ~Faulted(R) /\ LinksInOrder(R.heap)
            /\ \E A \in {Add(Cur, x)} : ~Faulted(A) /\ LinksInOrder(A.heap)
        /\ \E C \in {Clear(Cur)} : ~Faulted(C) /\ LinksInOrder(C.heap)

\* the middle one of three elements can be removed: Remove leaves a tombstoned leaf
C26_Witness ==
    /\ fault = "none" /\ size = 3
    /\ \E x \in live : \E R \in {Remove(Cur, x)} :
        /\ ~Faulted(R) /\ R.ret = TRUE
        /\ \E n \in PlainLeaves(R.heap) :
            /\ Tombstoned(R.heap, n)
            /\ R.heap[n].next # tail /\ heap[n].previous # head

(***************************************************************************)
(* C27.  Pruning.                                                          *)
(***************************************************************************)
\* The internal nodes of heap h at and below node n.
RECURSIVE InnerNodesFrom(_, _, _)
InnerNodesFrom(h, n, depth) ==
    IF h[n].kind # "node" \/ depth = 0 THEN {}
    ELSE {n} \cup UNION {InnerNodesFrom(h, h[n].children[i], depth - 1) :
                         i \in {j \in DOMAIN h[n].children : h[n].children[j] # Nil}}

InnerNodesOf(h, r) == IF r = Nil THEN {} ELSE InnerNodesFrom(h, r, MaxNodes)

\* no internal node of the tree but the root is without a child
NoBareNode(h, r) ==
    \A n \in InnerNodesOf(h, r) \ {r} : \E i \in DOMAIN h[n].children : h[n].children[i] # Nil

\* C27: after every Remove and after Clear no internal node other than the root is left
\* without children: the leaf's slot is emptied and then that of every ancestor that
\* became childless, up to the first ancestor that still has a child or to the root;
\* the root is never detached; the sibling subtrees of the removed path are untouched.
C27_Pruned ==
    fault = "none" =>
        /\ NoBareNode(heap, root)
        /\ \A x \in Elements : \E R \in {Remove(Cur, x)} :
            /\ ~Faulted(R)
            /\ R.root = root /\ NoBareNode(R.heap, R.root)
            /\ TreePathsOf(R.heap, R.root)
                   = IF R.ret = TRUE
                     THEN {p \in TreePathsOf(heap, root) : p.digits # Key(x)}
                     ELSE TreePathsOf(heap, root)
        /\ \E C \in {Clear(Cur)} :
            /\ ~Faulted(C)
            /\ C.root = root /\ InnerNodesOf(C.heap, C.root) \subseteq {root}
            /\ TreePathsOf(C.heap, C.root) = {}

\* "aa" was removed and "b" remains: the leaf of "aa" and its two ancestors below the
\* root are gone from the tree, the branch of "b" is in place
C27_Witness ==
    /\ fault = "none" /\ last.op = "Remove" /\ last.ret = TRUE
    /\ last.arg = <<97, 97>> /\ live = {<<98>>}
    /\ root # Nil /\ heap[root].children[1] = Nil /\ heap[root].children[2] # Nil

(***************************************************************************)
(* C28.  The occupied count of a node.                                     *)
(***************************************************************************)
\* the indexes of the occupied slots of node n
Occupied(n) == {i \in DOMAIN n.children : n.children[i] # Nil}

CountsMatch(h) ==
    \A n \in Ids : h[n].kind # "free" =>
        /\ h[n].numChildren = Cardinality(Occupied(h[n]))
        /\ HasChildren(h[n]) <=> Occupied(h[n]) # {}

\* C28: for every node, in every reachable state, the occupied count (numChildren)
\* equals the number of non-empty child slots, so HasChildren() is true exactly when a
\* slot is occupied; this holds after any sequence of AddChildWithIndexOf and
\* RemoveChildWithIndexOf calls, failed ones included.
C28_OccupiedCount == fault = "none" => CountsMatch(heap)

\* a call of AddChildWithIndexOf failed on an occupied slot of a node with two children
C28_Witness ==
    /\ fault = "none" /\ last.op = "AddChildWithIndexOf" /\ last.ret = "error"
    /\ last.arg.node = rootNode /\ last.arg.index \in Occupied(heap[rootNode])
    /\ heap[rootNode].numChildren = 2

(***************************************************************************)
(* The iterator while elements are removed.                                *)
(***************************************************************************)
\* The cursor is on a leaf that was removed.
CursorRemoved ==
    /\ iterator # Nil
    /\ ~heap[iterator].isHead
    /\ ~heap[iterator].isTail
    /\ IsDeleted(heap[iterator])

\* The live elements that follow the cursor in order.
AfterCursor ==
    IF heap[iterator].isHead THEN live
    ELSE IF heap[iterator].isTail THEN {}
    ELSE {x \in live : KeyLess(heap[iterator].element, x)}

\* x is the least element of the set S
LeastOf(x, S) == x \in S /\ \A y \in S : y = x \/ KeyLess(x, y)

\* C29: in every state of an iterator interleaved with removals, get() returns nil or
\* an element that is still stored; advance() returns false exactly when no live
\* element follows the cursor (the cursor is then on tail) and otherwise moves the
\* cursor to the first live element that follows it, also when the leaf under the
\* cursor and leaves after it were removed; and advancing to the end visits exactly
\* the live elements after the cursor, in ascending order.
C29_IteratorOverRemovals ==
    (iterator # Nil /\ fault = "none") =>
        /\ get(CurIterator) = NilValue \/ get(CurIterator) \in live
        /\ \E A \in {advance(CurIterator)} :
                /\ ~Faulted(A)
                /\ A.ret = (AfterCursor # {})
                /\ A.ret => LeastOf(get(A), AfterCursor)
                /\ ~A.ret => A.heap[A.it].isTail
        /\ \E V \in {valuesLoop(CurIterator, <<>>, MaxNodes + 1)} :
                /\ ~Faulted(V)
                /\ ListsInOrder(V.ret, AfterCursor)

\* The cursor is on a removed leaf, the leaf after it was removed as well and has not
\* been skipped yet, and a live element follows.
C29_Witness ==
    /\ fault = "none"
    /\ CursorRemoved
    /\ last.op = "Remove"
    /\ \E n \in {heap[iterator].next} :
            /\ n # Nil
            /\ ~heap[n].isHead
            /\ ~heap[n].isTail
            /\ IsDeleted(heap[n])
    /\ AfterCursor # {}

(***************************************************************************)
(* Node.AddChildWithIndexOf.                                               *)
(***************************************************************************)
\* The call must be refused: the index is not a slot of the node, or the slot is taken.
Refused(n, index) ==
    IF index < 0 \/ index >= NumSlots(heap[n]) THEN TRUE
    ELSE heap[n].children[index] # Nil

\* C30: AddChildWithIndexOf(index, child) with a child that is not nil returns an error
\* and leaves every node, the child's parent included, as it was when the index is
\* outside the slots of the node or the slot is occupied; otherwise it returns nil,
\* the slot holds the child, the occupied count is one higher, the other slots are
\* as they were and the child's parent is the node.
C30_AddChild ==
    fault = "none" =>
        \A n \in Receivers : \A index \in SlotIndices : \A child \in Children \ {Nil} :
            \E A \in {AddChildWithIndexOf(Cur, n, index, child)} :
                /\ ~Faulted(A)
                /\ A.ret = Refused(n, index)
                /\ A.ret => A.heap = heap
                /\ ~A.ret =>
                       /\ A.heap[n].children[index] = child
                       /\ A.heap[n].numChildren = heap[n].numChildren + 1
                       /\ \A k \in DOMAIN heap[n].children :
                              k # index => A.heap[n].children[k] = heap[n].children[k]
                       /\ A.heap[child].parent = n

\* a call has put a second child into the root node
C30_Witness ==
    /\ fault = "none" /\ last.op = "AddChildWithIndexOf" /\ last.ret = "nil"
    /\ last.arg.node = rootNode
    /\ heap[rootNode].children[last.arg.index] = last.arg.child
    /\ heap[last.arg.child].parent = rootNode
    /\ heap[rootNode].numChildren = 2

(***************************************************************************)
(* Node.ChildWithIndexOf and Node.RemoveChildWithIndexOf.                  *)
(***************************************************************************)
\* index is a slot of the node n
IsSlot(n, index) == 0 <= index /\ index < NumSlots(heap[n])

\* C31: ChildWithIndexOf(index) never panics; it returns an error for every index that
\* is not a slot of the node (index == number of slots and every index on a node
\* without slots included), and for a slot it returns what the slot holds, nil for an
\* empty one, without error.
C31_ChildWithIndexOfTotal ==
    fault = "none" =>
        \A n \in Receivers : \A index \in SlotIndices :
            \E C \in {ChildWithIndexOf(Cur, n, index)} :
                /\ ~Faulted(C)
                /\ C.heap = heap
                /\ C.ret = IF IsSlot(n, index) THEN heap[n].children[index]
                           ELSE childNotFound

\* C32: RemoveChildWithIndexOf(index) never panics; it returns false and changes
\* nothing when the index is not a slot of the node (index == number of slots
\* included) or the slot is empty, and otherwise it returns true, empties the slot,
\* lowers the occupied count by one and leaves the other slots alone.
C32_RemoveChildNoOp ==
    fault = "none" =>
        \A n \in Receivers : \A index \in SlotIndices :
            \E R \in {RemoveChildWithIndexOf(Cur, n, index)} :
                /\ ~Faulted(R)
                /\ R.ret = IF IsSlot(n, index) THEN heap[n].children[index] # Nil
                           ELSE FALSE
                /\ ~R.ret => R.heap = heap
                /\ R.ret => R.heap = [heap EXCEPT ![n].children[index] = Nil,
                                                  ![n].numChildren = @ - 1]

(***************************************************************************)
(* The search of the trie.                                                 *)
(***************************************************************************)
\* The node reached from node n at depth k by the digits d, one digit at a time:
\* the descent ends at a leaf, at the end of the digits, or at an empty slot.
RECURSIVE Descend(_, _, _)
Descend(n, d, k) ==
    IF heap[n].kind = "leaf" \/ k = Len(d) THEN [node |-> n, depth |-> k]
    ELSE IF heap[n].children[d[k + 1]] = Nil THEN [node |-> n, depth |-> k]
    ELSE Descend(heap[n].children[d[k + 1]], d, k + 1)

\* The outcome of the search for x: the result, the pointer and the branch position.
Outcome(x) ==
    IF size = 0 THEN [result |-> Unmatched, pointer |-> root, branchPosition |-> 0]
    ELSE The({[result |-> IF heap[r.node].kind = "leaf"
                          THEN IF r.depth = NumDigitsOf(x) THEN Matched ELSE Extension
                          ELSE IF r.depth = NumDigitsOf(x) THEN Prefix ELSE Unmatched,
               pointer |-> r.node,
               branchPosition |-> r.depth] : r \in {Descend(root, Digits(x), 0)}})

\* C33: find(x) returns Unmatched on an empty trie or when the slot for the next digit
\* of x is empty, Prefix when the digits of x end at an internal node, Extension when
\* a leaf is reached before the digits end, Matched when a leaf is reached as they
\* end; the pointer is then the deepest node reached on the way down and the branch
\* position is its depth; the trie is as it was.
C33_FindClassifies ==
    fault = "none" =>
        \A x \in Probes :
            \E F \in {find(Cur, x)} :
                /\ ~Faulted(F)
                /\ F.heap = heap
                /\ F.ret = Outcome(x).result
                /\ F.ptr = Outcome(x).pointer
                /\ F.bp = Outcome(x).branchPosition

\* Contains has searched a trie in which the four outcomes occur for some strings,
\* each below the root
C33_Witness ==
    /\ fault = "none" /\ last.op = "Contains"
    /\ \A result \in {Unmatched, Prefix, Extension, Matched} :
            \E x \in Probes : Outcome(x).result = result /\ Outcome(x).branchPosition > 0

(***************************************************************************)
(* The sentinels of the order list.                                        *)
(***************************************************************************)
\* head and tail are the sentinel leaves they were made as
SentinelsKept ==
    /\ heap[head].kind = "leaf" /\ heap[head].isHead
    /\ heap[tail].kind = "leaf" /\ heap[tail].isTail

\* the leaf after head points back to head, and the leaf before tail on to tail
SentinelsLinked ==
    /\ heap[head].next # Nil
    /\ heap[heap[head].next].previous = head
    /\ heap[tail].previous # Nil
    /\ heap[heap[tail].previous].next = tail

\* C34: in every reachable state, the freshly constructed trie included, head and tail
\* are kept, head.next.previous = head and tail.previous.next = tail (so tail's
\* previous link is never nil), and on an empty trie head.next = tail and
\* tail.previous = head.
C34_SentinelsLinked ==
    fault = "none" =>
        /\ SentinelsKept
        /\ SentinelsLinked
        /\ size = 0 => heap[head].next = tail /\ heap[tail].previous = head

(***************************************************************************)
(* The pooled search contexts.                                             *)
(***************************************************************************)
\* The search context an operation that ended in M puts back into the pool.
Leftover(M) == [ptr |-> M.ptr, dg |-> M.dg, bp |-> M.bp, nm |-> M.nm]

\* The trie, with the context c as the one the next operation takes from the pool.
WithContext(c) == [Cur EXCEPT !.ptr = c.ptr, !.dg = c.dg, !.bp = c.bp, !.nm = c.nm]

\* The digitizer of another trie.
OtherDigitizer == IF digitizer = stringDigitizer THEN plainDigitizer ELSE stringDigitizer

\* Contexts the pool can hand out: those a search, a Predecessor, an Add and a
\* Completions on this trie leave, and one left by a search of a trie with another
\* digitizer (its pointer stands for a leaf of that trie).
StaleContexts ==
    {Leftover(find(Cur, <<97, 98>>)),
     Leftover(Predecessor(Cur, <<98>>)),
     Leftover(Add(Cur, <<98, 97>>)),
     Leftover(Completions(Cur, <<97>>, <<>>)),
     [ptr |-> tail, dg |-> OtherDigitizer, bp |-> MaxLen + 2, nm |-> 0]}

\* The calls A and B ended alike and left the same trie.
SameOutcome(A, B) ==
    /\ A.fault = B.fault
    /\ A.heap = B.heap
    /\ A.root = B.root
    /\ A.size = B.size
    /\ ~Faulted(A) => A.ret = B.ret

ListedLeavesOf(A, x) == {l \in ListLeavesOf(A.heap) \ {Nil} : A.heap[l].element = x}

\* The leaves of the trie of machine A that are reachable from the root.
TreeLeavesOf(A) == {p.leaf : p \in TreePathsOf(A.heap, A.root)}

\* C36: whenever Add(x) returns nil, for any string x, with characters outside the
\* alphabet or not, Contains(x) is true afterwards and the leaf of x is linked into
\* the order list and reachable from the root.
C36_AddedIsReachable ==
    fault = "none" =>
        \A x \in WideElements :
            \E A \in {Add(Cur, x)} :
                (~Faulted(A) /\ A.ret = FALSE) =>
                    /\ \E C \in {Contains(Machine(A.heap, A.root, A.size), x)} :
                            ~Faulted(C) /\ C.ret = TRUE
                    /\ ListedLeavesOf(A, x) # {}
                    /\ ListedLeavesOf(A, x) \subseteq TreeLeavesOf(A)

(***************************************************************************)
(* radixTree.addNode at a leaf.                                            *)
(***************************************************************************)
\* C38: when radixTree.addNode is called for a new leaf with the search context that
\* radixTree.find left at an existing leaf, it returns, and afterwards the existing
\* leaf and the new leaf are both reachable from the root.
C38_EdgeSplit ==
    fault = "none" =>
        \A x \in Elements :
            \E F \in {radixTree_find(Cur, x)} :
                (~Faulted(F) /\ atLeaf(F) /\ F.ret # Matched) =>
                    \E N \in {Alloc(F, [newLeafNode EXCEPT !.element = x])} :
                        \E A \in {radixTree_addNode(N, N.ret)} :
                            /\ ~Faulted(A)
                            /\ {F.ptr, N.ret} \subseteq TreeLeavesOf(A)

(***************************************************************************)
(* A radix tree and a trie.                                                *)
(***************************************************************************)
\* The radix tree holds one node per digit: the root-to-leaf paths spell the digit
\* sequences of the live elements.
OneNodePerDigit ==
    {p.digits : p \in TreePathsOf(heap, root)} = {Key(x) : x \in live}

Visible(M) == Collect(M.heap, M.root)

\* trie t has a root and does not contain x
AbsentFromRooted(x) ==
    /\ root # Nil
    /\ \E C \in {Contains(Cur, x)} : ~Faulted(C) /\ C.ret = FALSE

\* Add(x) returned nil in A, and the Remove(x) after it returns true and leaves the
\* size, the values and all that head, tail and the root reach as they are now; the
\* leaf of x is left marked deleted and out of reach.
RoundTrip(x, A) ==
    \E R \in {Remove(Machine(A.heap, A.root, A.size), x)} :
        /\ ~Faulted(R)
        /\ R.ret = TRUE
        /\ R.size = size
        /\ \E V \in {Values(Machine(R.heap, R.root, R.size))} :
               \E W \in {Values(Cur)} :
                   ~Faulted(V) /\ ~Faulted(W) /\ V.ret = W.ret
        /\ Visible(R) = Visible(Cur)
        /\ \A i \in Ids :
               (R.heap[i].kind = "leaf" /\ heap[i].kind = "free")
                   => /\ R.heap[i].element = x
                      /\ R.heap[i].previous = Nil

\* C39: on a trie with a root that does not contain x, whenever Add(x) returns nil the
\* Remove(x) after it returns true and leaves the size, the values, and all that head,
\* tail and the root reach (the internal nodes with their slots, the links of the live
\* leaves and the sentinels) as they were before the Add; the leaf of x is left marked
\* deleted and out of reach.
C39_AddRemoveRoundTrip ==
    fault = "none" =>
        \A x \in WideElements :
            AbsentFromRooted(x) =>
                \E A \in {Add(Cur, x)} :
                    (~Faulted(A) /\ A.ret = FALSE) => RoundTrip(x, A)

====
